---- MODULE Spec2Model ----
(***************************************************************************)
(* A model of the redbird reverse proxy (lib/proxy.js): the routing table, *)
(* the resolver pipeline, route resolution, the request handlers of the    *)
(* listeners, the certificate store with its renewal timers, and the       *)
(* connection registry with close.                                         *)
(*                                                                         *)
(* JavaScript strings that the code slices or indexes (URLs, route paths)  *)
(* are sequences of one-character strings; strings that the code only      *)
(* compares (hostnames, target hrefs) are TLA+ strings.                    *)
(***************************************************************************)
EXTENDS Integers, Sequences, FiniteSets, Bags, TLC

VARIABLES
  routing,     \* this.routing: hostname -> bucket (sequence of routes)
  resolvers,   \* this.resolvers: the resolver pipeline, a sequence of resolver names
  routeCache,  \* routeCache: resolver result -> the route object built from it
  reqs,        \* the HTTP requests in flight, one record per request slot
  probe,       \* the arguments and the result of one path match
  picks,       \* history: per (hostname, path), the last |urls| indexes selected since the route's last register or unregister
  thisOpts,    \* this.opts and the listeners the constructor created
  certs,       \* this.certs: hostname -> "context" or "undefined" (use the listener's default certificate)
  acmeRequests,     \* the letsencrypt.getCertificates calls outstanding, a bag of the arguments of updateCertificates
  respondNotFound,  \* the module's respondNotFound: "default" or the callback given to notFound
  lastCall,    \* how the last call of register or of a renewal timer's callback ended
  timers,      \* the renewal timers that safe.setTimeout holds pending, each with what its callback closes over
  renewalTimeout,   \* this.certs[hostname].renewalTimeout: hostname -> id of the timer, for the entries that have one
  timerSeq,    \* the number of renewal timers created so far (the id of the last one)
  _connections,     \* this._connections: the ids that have an entry (the connection of id n is socket n)
  _connId,     \* this._connId
  openSockets, \* the accepted sockets that have not emitted 'close'
  shutdowns,   \* the pending timers of close(shutdown): the captured registries, in the order they were set
  ended,       \* per connection, the number of calls of its end()
  listening,   \* whether the listeners accept connections
  listenersClosed, \* whether every listener has emitted 'close' since the last close
  closePromise,    \* the promises close returned: "none", "pending" or "resolved"
  otherResponder   \* what answered the last routing miss of another ReverseProxy of the process

serverVars == <<thisOpts, certs, acmeRequests, respondNotFound, lastCall, otherResponder>>

timerVars == <<timers, renewalTimeout, timerSeq>>

connVars == <<_connections, _connId, openSockets, shutdowns, ended, listening,
              listenersClosed, closePromise>>

vars == <<routing, resolvers, routeCache, reqs, probe, picks, serverVars, timerVars, connVars>>

---------------------------------------------------------------------------
(* Bounds and input domains *)

\* most target URLs the routing table holds (register is not offered beyond it)
MaxTargets == 2

\* longest URL given to the path match
MaxUrlLen == 4

Hosts == {"a.com"}

Root == <<"/">>
PathA == <<"/", "a">>
PathB == <<"/", "b">>
Paths == {Root, PathA, PathB}

\* requests, as Host header and URL: a.com/a/b, a.com/ab, a.com/b?q, c.com/a/b
ReqInputs == {<<"a.com", <<"/", "a", "/", "b">>>>, <<"a.com", <<"/", "a", "b">>>>,
              <<"a.com", <<"/", "b", "?", "q">>>>, <<"c.com", <<"/", "a", "/", "b">>>>}

\* target arguments of register and unregister, as the caller writes them
TargetArgs == {"t1", "http://t1", "t2"}

NoTarget == ""

ReqIds == {"r1", "r2"}

---------------------------------------------------------------------------
(* URL utilities *)

Min(a, b) == IF a < b THEN a ELSE b

\* input.slice(0, n)
slice(input, n) == SubSeq(input, 1, Min(n, Len(input)))

\* input[n], 0-based; out of range reads undefined
charAt(input, n) == IF n + 1 <= Len(input) THEN input[n + 1] ELSE "undefined"

\* url.substr(n)
substr(input, n) == SubSeq(input, n + 1, Len(input))

\* startsWith without the test of the character after the prefix
startsWithNoBoundary(input, str) == slice(input, Len(str)) = str

startsWith(input, str) ==
  /\ slice(input, Len(str)) = str
  /\ \/ Len(input) = Len(str)
     \/ charAt(input, Len(str)) = "/"
     \/ charAt(input, Len(str)) = "?"

\* the test of _defaultResolver and of resolve on a route path
pathMatches(url, path) == path = Root \/ startsWith(url, path)

\* path.posix.normalize on a path without "." segments: runs of "/" become one "/"
RECURSIVE normalize(_)
normalize(p) ==
  IF Len(p) < 2 THEN p
  ELSE IF p[1] = "/" /\ p[2] = "/" THEN normalize(Tail(p))
  ELSE <<p[1]>> \o normalize(Tail(p))

\* path.posix.join(a, b): the non-empty arguments joined by "/" and normalized
posixJoin(a, b) ==
  IF a = <<>> THEN normalize(b)
  ELSE IF b = <<>> THEN normalize(a)
  ELSE normalize(a \o <<"/">> \o b)

\* the rewrite joining the target pathname and a query-only remainder as well
rewriteUrlAlwaysJoins(url, pathname, targetPathname) ==
  LET rest == IF Len(pathname) > 1 THEN substr(url, Len(pathname)) ELSE url
  IN IF targetPathname = <<>> THEN rest
     ELSE IF rest = <<>> THEN targetPathname
     ELSE posixJoin(targetPathname, rest)

\* req.url after the rewrite of _getRouteTarget, for the route path pathname and
\* target.pathname targetPathname (<<>> when the target has none)
rewriteUrl(url, pathname, targetPathname) ==
  LET rest == IF Len(pathname) > 1 THEN substr(url, Len(pathname)) ELSE url
  IN IF targetPathname = <<>> THEN rest
     ELSE IF rest = <<>> THEN targetPathname
     ELSE IF rest[1] = "?" THEN targetPathname \o rest
     ELSE posixJoin(targetPathname, rest)

\* req._url after the rewrite: the original URL, saved when a prefix is stripped;
\* <<>> when it is not set
savedUrl(url, pathname) == IF Len(pathname) > 1 THEN url ELSE <<>>

\* setHttp: prepend the scheme when the link has none
setHttp(link) ==
  CASE link = "t1" -> "http://t1"
    [] link = "t2" -> "http://t2"
    [] link = "t3/a" -> "http://t3/a"
    [] link = "127.0.0.1:3000" -> "http://127.0.0.1:3000"
    [] OTHER -> link

\* prepareUrl(target).href: url.parse normalises the empty path to "/"
hrefOf(target) ==
  CASE setHttp(target) = "http://t1" -> "http://t1/"
    [] setHttp(target) = "http://t2" -> "http://t2/"
    [] setHttp(target) = "http://127.0.0.1:3000" -> "http://127.0.0.1:3000/"
    [] setHttp(target) = "https://t2" -> "https://t2/"
    [] setHttp(target) = "https://a.com" -> "https://a.com/"
    [] OTHER -> setHttp(target)

\* parseUrl(url).pathname and .host of a target, from its href
pathnameOf(href) == IF href = "http://t3/a" THEN PathA ELSE Root
hostOf(href) ==
  CASE href = "http://t1/" -> "t1"
    [] href = "http://t2/" -> "t2"
    [] href = "http://t3/a" -> "t3"
    [] href = "http://127.0.0.1:3000/" -> "127.0.0.1:3000"
    [] href = "https://t2/" -> "t2"
    [] href = "https://a.com/" -> "a.com"
    [] OTHER -> ""

\* parseUrl(url).protocol and .hostname of a target, from its href
protocolOf(href) == IF href \in {"https://t2/", "https://a.com/"} THEN "https:" ELSE "http:"
hostnameOf(href) == IF href = "http://127.0.0.1:3000/" THEN "127.0.0.1" ELSE hostOf(href)

\* route options: the hooks and the ssl option. onRequest is "undefined" (no
\* hook), "returnsUndefined", "returnsFalse" or "throws"; onResponse is
\* "undefined", "returns", "rejects" or "throws"; ssl is "undefined", "certs" (key and cert given),
\* "default" (no key, no letsencrypt), "letsencrypt" or "noRedirect" (key and
\* cert given, redirect: false); changeOrigin is "undefined", "true" or "false"
NoHooks == [defined |-> TRUE, onRequest |-> "undefined", onResponse |-> "undefined",
            onError |-> FALSE, ssl |-> "undefined", changeOrigin |-> "undefined"]

\* ReverseProxy.buildTarget(target, opts)
buildTarget(target, o) ==
  [href |-> hrefOf(target),
   sslRedirect |-> o.ssl # "undefined" /\ o.ssl # "noRedirect",
   useTargetHostHeader |-> FALSE]

---------------------------------------------------------------------------
(* Routing table *)

\* route options given to register
RegisterOpts == {NoHooks, [NoHooks EXCEPT !.onRequest = "returnsFalse"]}

\* routing[hostname] || []
bucketOf(rt, host) == IF host \in DOMAIN rt THEN rt[host] ELSE <<>>

\* _.find(host, {path: pathname}) and the loop of unregister: first index, 0 when none
findPath(routes, pathname) ==
  LET idx == {i \in 1..Len(routes) : routes[i].path = pathname}
  IN IF idx = {} THEN 0 ELSE CHOOSE i \in idx : \A j \in idx : i <= j

setBucket(rt, host, bucket) ==
  [h \in (DOMAIN rt) \cup {host} |-> IF h = host THEN bucket ELSE rt[h]]

MaxPathLen(routes) ==
  LET lens == {Len(routes[i].path) : i \in 1..Len(routes)}
  IN IF lens = {} THEN 0 ELSE CHOOSE n \in lens : \A m \in lens : m <= n

\* the routes of path length n, n-1, .. 1, each group in its order in routes
RECURSIVE byLengthFrom(_, _)
byLengthFrom(routes, n) ==
  IF n <= 0 THEN <<>>
  ELSE SelectSeq(routes, LAMBDA r : Len(r.path) = n) \o byLengthFrom(routes, n - 1)

\* register without the sort of the bucket
sortBySkipped(routes) == routes

\* _.sortBy(host, r => -r.path.length): a stable sort
sortBy(routes) == byLengthFrom(routes, MaxPathLen(routes))

\* _getProxy(src, target, opts) for the hostname of src and the href of target:
\* "default" is this.proxy, "changeOrigin" a handle of this._proxies, all of
\* which are created with changeOrigin true
_getProxy(hostname, href, opts) ==
  LET changeOrigin == IF /\ opts.changeOrigin = "undefined"
                         /\ hostname # hostnameOf(href)
                         /\ protocolOf(href) = "https:"
                      THEN "true" ELSE opts.changeOrigin
  IN IF changeOrigin = "true" THEN "changeOrigin" ELSE "default"

register(rt, host, pathname, target, opts) ==
  LET hostRoutes == bucketOf(rt, host)
      i == findPath(hostRoutes, pathname)
  IN IF i = 0
     THEN LET route == [path |-> pathname, rr |-> 0, urls |-> <<>>, opts |-> opts,
                        proxy |-> _getProxy(host, hrefOf(target), opts)]
              sorted == sortBy(Append(hostRoutes, route))
              k == findPath(sorted, pathname)
          IN setBucket(rt, host, [sorted EXCEPT ![k].urls = Append(@, buildTarget(target, opts))])
     ELSE setBucket(rt, host, [hostRoutes EXCEPT ![i].urls = Append(@, buildTarget(target, opts))])

\* routes.splice(i, 1)
splice(routes, i) == SubSeq(routes, 1, i - 1) \o SubSeq(routes, i + 1, Len(routes))

\* the removal step taking every url out, whatever the target
urlsAfterUnregisterAll(urls, target) == <<>>

\* route.urls after the removal step of unregister
urlsAfterUnregister(urls, target) ==
  IF target # NoTarget
  THEN SelectSeq(urls, LAMBDA u : u.href # hrefOf(target))
  ELSE <<>>

\* unregister without the splice of a route left with no urls
unregisterNoSplice(rt, host, pathname, target) ==
  LET routes == bucketOf(rt, host)
      i == findPath(routes, pathname)
  IN IF i = 0 THEN rt
     ELSE [rt EXCEPT ![host] =
             [routes EXCEPT ![i].urls = urlsAfterUnregister(routes[i].urls, target)]]

unregister(rt, host, pathname, target) ==
  LET routes == bucketOf(rt, host)
      i == findPath(routes, pathname)
  IN IF i = 0 THEN rt
     ELSE LET urls == urlsAfterUnregister(routes[i].urls, target)
          IN IF Len(urls) = 0
             THEN [rt EXCEPT ![host] = splice(routes, i)]
             ELSE [rt EXCEPT ![host] = [routes EXCEPT ![i].urls = urls]]

\* whether unregister(host, pathname, target) takes the route out of its bucket
unregisterRemoves(rt, host, pathname, target) ==
  LET routes == bucketOf(rt, host)
      i == findPath(routes, pathname)
  IN i # 0 /\ Len(urlsAfterUnregister(routes[i].urls, target)) = 0

---------------------------------------------------------------------------
(* Resolver results and route coercion *)

\* a resolver's return value: undefined, a route of the table, a target string,
\* a descriptor object {url, path}, an object without url, or a number
Undefined == [kind |-> "undefined", host |-> "", path |-> <<>>, urls |-> <<>>]
TableRoute(host, pathname) == [kind |-> "route", host |-> host, path |-> pathname, urls |-> <<>>]
TargetString(s) == [kind |-> "string", host |-> "", path |-> <<>>, urls |-> <<s>>]
Descriptor(urls, pathname) == [kind |-> "descriptor", host |-> "", path |-> pathname, urls |-> urls]
PlainObject == [kind |-> "object", host |-> "", path |-> <<>>, urls |-> <<>>]
Number == [kind |-> "number", host |-> "", path |-> <<>>, urls |-> <<>>]

\* a resolver call that throws, and one that returns a promise that rejects
Throws == [kind |-> "throws", host |-> "", path |-> <<>>, urls |-> <<>>]
Rejects == [kind |-> "rejects", host |-> "", path |-> <<>>, urls |-> <<>>]

\* a route object that unregister has spliced out of its bucket: its urls are empty
DetachedRoute(host, pathname) == [kind |-> "detachedRoute", host |-> host, path |-> pathname, urls |-> <<>>]

\* a target string that validUrl rejects
BadTarget == "bad url"

\* the assert of prepareUrl
isValidTarget(s) == s # BadTarget

\* JavaScript truthiness of a resolver result
truthy(r) == r.kind # "undefined" /\ ~(r.kind = "string" /\ r.urls = <<"">>)

\* _defaultResolver returning the last route of the bucket that matches
_defaultResolverLastHit(rt, host, url0) ==
  IF host = "" THEN Undefined
  ELSE LET url == IF url0 = <<>> THEN Root ELSE url0
           routes == bucketOf(rt, host)
           hits == {i \in 1..Len(routes) : pathMatches(url, routes[i].path)}
       IN IF host \notin DOMAIN rt \/ hits = {} THEN Undefined
          ELSE TableRoute(host, routes[CHOOSE i \in hits : \A j \in hits : i >= j].path)

\* ReverseProxy.prototype._defaultResolver
_defaultResolver(rt, host, url0) ==
  IF host = "" THEN Undefined
  ELSE LET url == IF url0 = <<>> THEN Root ELSE url0
           routes == bucketOf(rt, host)
           hits == {i \in 1..Len(routes) : pathMatches(url, routes[i].path)}
       IN IF host \notin DOMAIN rt \/ hits = {} THEN Undefined
          ELSE TableRoute(host, routes[CHOOSE i \in hits : \A j \in hits : i <= j].path)

\* ReverseProxy.buildRoute: [route, cache, threw]; route is Undefined for null
buildRoute(r, cache) ==
  IF r.kind = "number" THEN [route |-> Undefined, cache |-> cache, threw |-> FALSE]
  ELSE IF r.kind \in {"route", "detachedRoute"} THEN [route |-> r, cache |-> cache, threw |-> FALSE]
  ELSE IF r \in DOMAIN cache THEN [route |-> r, cache |-> cache, threw |-> FALSE]
  ELSE IF r.kind = "string"
    THEN IF ~isValidTarget(r.urls[1])
         THEN [route |-> Undefined, cache |-> cache, threw |-> TRUE]
         ELSE [route |-> r, threw |-> FALSE,
               cache |-> [k \in (DOMAIN cache) \cup {r} |->
                            IF k = r
                            THEN [path |-> Root, rr |-> 0, isResolved |-> TRUE,
                                  urls |-> <<buildTarget(r.urls[1], NoHooks)>>]
                            ELSE cache[k]]]
  ELSE IF r.kind = "object" THEN [route |-> Undefined, cache |-> cache, threw |-> FALSE]
  ELSE IF \E n \in 1..Len(r.urls) : ~isValidTarget(r.urls[n])
    THEN [route |-> Undefined, cache |-> cache, threw |-> TRUE]
    ELSE [route |-> r, threw |-> FALSE,
          cache |-> [k \in (DOMAIN cache) \cup {r} |->
                       IF k = r
                       THEN [path |-> IF r.path = <<>> THEN Root ELSE r.path,
                             rr |-> 0, isResolved |-> TRUE,
                             urls |-> [n \in 1..Len(r.urls) |-> buildTarget(r.urls[n], NoHooks)]]
                       ELSE cache[k]]]

\* buildRoute leaving isResolved unset on the routes it builds
isResolvedUnset(route) == FALSE

\* route.isResolved and route.path of a coerced route
isResolved(route) == route.kind \in {"string", "descriptor"}
pathOf(route, cache) == IF isResolved(route) THEN cache[route].path ELSE route.path

\* the scan of resolve's then-callback over the resolver results, from index i:
\* [route, cache, threw]; route is Undefined when no result qualifies
RECURSIVE scanResults(_, _, _, _)
scanResults(results, i, url, cache) ==
  IF i > Len(results) THEN [route |-> Undefined, cache |-> cache, threw |-> FALSE]
  ELSE IF ~truthy(results[i]) THEN scanResults(results, i + 1, url, cache)
  ELSE LET b == buildRoute(results[i], cache)
       IN IF b.threw THEN b
          ELSE IF b.route.kind = "undefined" THEN scanResults(results, i + 1, url, b.cache)
          ELSE IF ~isResolved(b.route) \/ pathMatches(url, pathOf(b.route, b.cache))
            THEN b
            ELSE scanResults(results, i + 1, url, b.cache)

\* ReverseProxy.prototype.resolve, once every resolver has returned: the catch
\* turns a throw of the scan into no route
resolve(results, url, cache) ==
  IF \E n \in 1..Len(results) : results[n].kind = "rejects"
  THEN [route |-> Undefined, cache |-> cache]
  ELSE LET s == scanResults(results, 1, url, cache)
       IN [route |-> IF s.threw THEN Undefined ELSE s.route, cache |-> s.cache]

---------------------------------------------------------------------------
(* The resolver pipeline: addResolver and removeResolver *)

\* resolvers a caller adds: rA, rB and rC carry no priority of their own, rHigh
\* has priority 1
Customs == {"rA", "rB", "rC", "rHigh"}

\* the resolvers added while requests are served
ResolveCustoms == {"rA", "rHigh"}

\* resolver.priority, after addResolver has defaulted it to 0
priorityOf(r) == IF r = "challenge" THEN 9999 ELSE IF r = "rHigh" THEN 1 ELSE 0

\* _.uniq(list): the first occurrence of every element, in order
RECURSIVE uniq(_)
uniq(list) ==
  IF list = <<>> THEN <<>>
  ELSE LET front == uniq(SubSeq(list, 1, Len(list) - 1))
           last == list[Len(list)]
       IN IF \E n \in 1..Len(front) : front[n] = last THEN front ELSE Append(front, last)

\* the elements of list whose priority is in prios, lowest priority first, each
\* priority group in its order in list
RECURSIVE ascendingFrom(_, _)
ascendingFrom(list, prios) ==
  IF prios = {} THEN <<>>
  ELSE LET low == CHOOSE x \in prios : \A y \in prios : x <= y
       IN SelectSeq(list, LAMBDA r : priorityOf(r) = low) \o ascendingFrom(list, prios \ {low})

\* _.sortBy(list, ['priority']): a stable ascending sort
sortByPriority(list) == ascendingFrom(list, {priorityOf(list[n]) : n \in 1..Len(list)})

\* Array.prototype.reverse
reverse(list) == [n \in 1..Len(list) |-> list[Len(list) + 1 - n]]

\* the pipeline after addResolver(added), added a sequence of resolvers
addResolver(pipeline, added) == reverse(sortByPriority(uniq(pipeline \o added)))

\* the pipeline after removeResolver(resolver)
removeResolver(pipeline, resolver) == SelectSeq(pipeline, LAMBDA r : r # resolver)

---------------------------------------------------------------------------
(* The request handlers of the HTTP and the HTTPS listener *)

\* host.toLowerCase()
toLowerCase(host) == IF host = "A.com" THEN "a.com" ELSE host

\* the options of a route that buildRoute built: the object has no opts
NoOpts == [defined |-> FALSE, onRequest |-> "undefined", onResponse |-> "undefined",
           onError |-> FALSE, ssl |-> "undefined", changeOrigin |-> "undefined"]

\* route.opts of a route
optsOf(rt, route) ==
  IF route.kind = "route"
  THEN bucketOf(rt, route.host)[findPath(bucketOf(rt, route.host), route.path)].opts
  ELSE NoOpts

\* the round-robin step on urls with index rr: the index used, the index stored
\* and the target read (href "undefined" when urls[rr] does not exist)
roundRobin(urls, rr) ==
  [j |-> rr,
   rr |-> (rr + 1) % Len(urls),
   target |-> IF rr < Len(urls) THEN urls[rr + 1].href ELSE "undefined",
   sslRedirect |-> IF rr < Len(urls) THEN urls[rr + 1].sslRedirect ELSE FALSE]

\* the result of _getRouteTarget when it yields no route or throws
noTarget(rt, cache, threw, j, url) ==
  [routing |-> rt, cache |-> cache, threw |-> threw, hasRoute |-> FALSE,
   target |-> "undefined", sslRedirect |-> FALSE, j |-> j, reqUrl |-> url,
   savedUrl |-> <<>>, hook |-> FALSE, opts |-> NoOpts, proxy |-> "undefined"]

\* the then-callback of ReverseProxy.prototype._getRouteTarget on the route that
\* resolve produced for the request URL url: the routing table and route cache
\* after it, whether it threw, the route and target it returns, the index it
\* selected (-1: none), req.url and req._url after the rewrite, whether it called
\* the onRequest hook, route.opts and route.proxy
_getRouteTarget(rt, cache, route, url) ==
  IF route.kind = "undefined" THEN noTarget(rt, cache, FALSE, -1, url)
  ELSE IF route.kind = "detachedRoute"
  THEN \* urls is empty: rr becomes NaN on the detached object, target.pathname throws
       noTarget(rt, cache, TRUE, -1, url)
  ELSE IF route.kind = "route"
  THEN LET routes == rt[route.host]
           k == findPath(routes, route.path)
           sel == roundRobin(routes[k].urls, routes[k].rr)
           rt2 == [rt EXCEPT ![route.host] = [routes EXCEPT ![k].rr = sel.rr]]
       IN IF sel.target = "undefined" \/ ~routes[k].opts.defined
          THEN noTarget(rt2, cache, TRUE, sel.j, url)
          ELSE IF routes[k].opts.onRequest = "throws"
          THEN \* the callback throws at the call of the hook and returns no route
               [noTarget(rt2, cache, TRUE, sel.j, url) EXCEPT !.hook = TRUE]
          ELSE [routing |-> rt2, cache |-> cache, threw |-> FALSE, hasRoute |-> TRUE,
                target |-> IF routes[k].opts.onRequest = "returnsFalse"
                           THEN "false" ELSE sel.target,
                sslRedirect |-> routes[k].opts.onRequest # "returnsFalse" /\ sel.sslRedirect,
                j |-> sel.j,
                reqUrl |-> rewriteUrl(url, route.path, pathnameOf(sel.target)),
                savedUrl |-> savedUrl(url, route.path),
                hook |-> routes[k].opts.onRequest # "undefined",
                opts |-> routes[k].opts,
                proxy |-> routes[k].proxy]
  ELSE LET sel == roundRobin(cache[route].urls, cache[route].rr)
           cache2 == [cache EXCEPT ![route].rr = sel.rr]
       IN IF sel.target = "undefined" \/ ~optsOf(rt, route).defined
          THEN noTarget(rt, cache2, TRUE, sel.j, url)
          ELSE [routing |-> rt, cache |-> cache2, threw |-> FALSE, hasRoute |-> TRUE,
                target |-> sel.target, sslRedirect |-> sel.sslRedirect, j |-> sel.j,
                reqUrl |-> rewriteUrl(url, cache[route].path, pathnameOf(sel.target)),
                savedUrl |-> savedUrl(url, cache[route].path),
                hook |-> FALSE, opts |-> NoOpts, proxy |-> "undefined"]

\* this.letsencryptHost
letsencryptHost(o) == IF o.letsencrypt THEN "127.0.0.1:3000" ELSE "undefined"

\* shouldRedirectToHttps testing certs[src] in place of src in certs
shouldRedirectToHttpsTruthy(o, cs, src, href, sslRedirect) ==
  /\ o.https
  /\ src \in DOMAIN cs
  /\ cs[src] = "context"
  /\ sslRedirect
  /\ hostOf(href) # letsencryptHost(o)

\* shouldRedirectToHttps(certs, src, target, proxy), with target given by its
\* href and its sslRedirect; this.certs exists when opts.ssl was given
shouldRedirectToHttps(o, cs, src, href, sslRedirect) ==
  /\ o.https
  /\ src \in DOMAIN cs
  /\ sslRedirect
  /\ hostOf(href) # letsencryptHost(o)

\* the handler going on to the forwarder when there is no route
outcomeOfForwardsMiss(g, redirect) ==
  IF g.threw THEN "error"
  ELSE IF g.target = "false" THEN "skipped"
  ELSE IF redirect THEN "redirected"
  ELSE "forwarded"

\* what the callbacks of a listener's request handler make of the result of
\* _getRouteTarget; redirect is the test of the HTTP listener
outcomeOf(g, redirect) ==
  IF g.threw THEN "error"
  ELSE IF ~g.hasRoute THEN "notFound"
  ELSE IF g.target = "false" THEN "skipped"
  ELSE IF redirect THEN "redirected"
  ELSE "forwarded"

\* a request slot: the request (listener, host, url), the resolver results, the
\* route and target of the handler, req.url and req._url, the response (status,
\* headersSent, ended, body, location), the calls made for the request and the
\* state of its forward; sentBefore is res.headersSent when handleProxyError was
\* entered, sslRedirect is target.sslRedirect of the target the handler got,
\* rejected is whether req[FORWARDING].reject was called, inline whether a
\* listener of the forwarder called handleProxyError, settled whether the
\* promise of the forward defer has been resolved or rejected, events the
\* number of 'end', 'error' and 'econnreset' events of the forwarder, ws the
\* number of calls of this.proxy.ws, via the proxy handle (route.proxy) whose
\* web was called
IdleReq == [pc |-> "idle", listener |-> "", host |-> "", url |-> <<>>, results |-> <<>>,
            route |-> Undefined, routeOpts |-> NoOpts, outcome |-> "", target |-> "",
            reqUrl |-> <<>>, savedUrl |-> <<>>,
            status |-> 0, headersSent |-> FALSE, ended |-> FALSE, body |-> "",
            location |-> <<>>, responder |-> "",
            web |-> 0, upstreamUrl |-> <<>>, defer |-> FALSE, forward |-> "",
            err |-> "", onRequestCalls |-> 0, onResponseCalls |-> 0,
            onResponseTarget |-> "", onErrorCalls |-> 0, errorHandlerCalls |-> 0,
            handleProxyErrorCalls |-> 0, writeHead |-> 0, sentBefore |-> FALSE,
            sslRedirect |-> FALSE, rejected |-> FALSE, inline |-> FALSE,
            settled |-> FALSE, events |-> 0, ws |-> 0, via |-> ""]

\* ReverseProxy.prototype.handleProxyError(err, req, res) for err.code = code
\* ("undefined" when the error has none). writeHead holds the status given to
\* res.writeHead, 0 when it is not called; res.writeHead throws when the headers
\* have been sent, and res.end is then not reached
handleProxyError(r, code) ==
  LET writeHead == IF code = "ECONNREFUSED" THEN 502
                   ELSE IF ~r.headersSent THEN 500
                   ELSE 0
      throws == writeHead # 0 /\ r.headersSent
  IN [r EXCEPT !.handleProxyErrorCalls = @ + 1, !.err = code,
               !.sentBefore = r.headersSent,
               !.writeHead = writeHead,
               !.status = IF writeHead # 0 /\ ~throws THEN writeHead ELSE @,
               !.headersSent = TRUE,
               !.ended = IF throws THEN @ ELSE TRUE,
               !.body = IF throws \/ r.ended THEN @ ELSE code]

\* the catch callback calling every handler that is set
catchErrorAll(r, code, routeOpts, o) ==
  LET a == IF routeOpts.onError THEN [r EXCEPT !.onErrorCalls = @ + 1, !.err = code] ELSE r
      b == IF o.errorHandler THEN [a EXCEPT !.errorHandlerCalls = @ + 1, !.err = code] ELSE a
  IN handleProxyError(b, code)

\* the catch callback of the request handler for an error with code code;
\* routeOpts is _route.opts, NoOpts when _route is not set
catchError(r, code, routeOpts, o) ==
  IF routeOpts.onError THEN [r EXCEPT !.onErrorCalls = @ + 1, !.err = code]
  ELSE IF o.errorHandler THEN [r EXCEPT !.errorHandlerCalls = @ + 1, !.err = code]
  ELSE handleProxyError(r, code)

\* the second then-callback skipping the onResponse hook
thenOnResponseNever(r, o) == r

\* the second then-callback of the request handler: the onResponse hook, whose
\* rejection or exception (here with an ECONNREFUSED of its own) goes to the
\* catch callback
thenOnResponse(r, o) ==
  IF r.routeOpts.onResponse = "undefined" THEN r
  ELSE LET c == [r EXCEPT !.onResponseCalls = @ + 1, !.onResponseTarget = r.target]
       IN IF r.routeOpts.onResponse \in {"rejects", "throws"}
          THEN catchError(c, "ECONNREFUSED", r.routeOpts, o)
          ELSE c

\* the listener calling handleProxyError whether or not the request has a defer
proxyOnErrorAlwaysInline(r, code, o) ==
  [handleProxyError(r, code) EXCEPT !.inline = TRUE]

\* the 'error' and 'econnreset' listeners of _setupProxyEvents for an error with
\* code code: with req[FORWARDING] the error rejects the defer, which the catch
\* callback of the request handler receives; without, handleProxyError is called
proxyOnError(r, code, o) ==
  IF r.defer
  THEN IF r.settled THEN r
       ELSE catchError([r EXCEPT !.rejected = TRUE, !.settled = TRUE], code, r.routeOpts, o)
  ELSE [handleProxyError(r, code) EXCEPT !.inline = TRUE]

\* the 'end' listener running the then-callback at every event
proxyOnEndSettlesAgain(r, o) ==
  IF r.defer THEN thenOnResponse([r EXCEPT !.settled = TRUE], o) ELSE r

\* the 'end' listener of _setupProxyEvents: with req[FORWARDING] it resolves the
\* defer, whose then-callback runs the onResponse hook; resolving or rejecting
\* a promise that is settled does nothing
proxyOnEnd(r, o) ==
  IF r.defer
  THEN IF r.settled THEN r ELSE thenOnResponse([r EXCEPT !.settled = TRUE], o)
  ELSE r

\* respondNotFound(req, res): the default responder, or the callback given to
\* notFound, which answers 404 with a body of its own
notFoundResponse(r, nf) ==
  [r EXCEPT !.responder = nf, !.status = 404, !.headersSent = TRUE, !.ended = TRUE,
            !.body = IF nf = "default" THEN "Not Found" ELSE "custom"]

\* an onRequest hook that returns false answers the request itself: 500 "skip forward"
hookResponse(r) ==
  [r EXCEPT !.status = 500, !.headersSent = TRUE, !.ended = TRUE, !.body = "skip forward"]

\* redirectToHttps(req, res, target, ssl, log): Location is https:// followed by
\* path.posix.join(hostname, req._url || req.url); location holds what follows
\* the hostname
redirectToHttps(r) ==
  [r EXCEPT !.status = 302, !.headersSent = TRUE, !.ended = TRUE,
            !.location = normalize(<<"/">> \o (IF r.savedUrl # <<>> THEN r.savedUrl ELSE r.reqUrl))]

\* route.proxy.web(req, res, httpProxyOpts) and this._createForwardDefer(route, req)
forwardWeb(r, o, proxy) ==
  [r EXCEPT !.web = @ + 1, !.upstreamUrl = r.reqUrl, !.forward = "pending",
            !.via = proxy,
            !.defer = \/ r.routeOpts.onResponse # "undefined"
                      \/ r.routeOpts.onError
                      \/ o.errorHandler]

\* the callbacks of the request handler of listener r.listener on the result g
\* of _getRouteTarget for request r
handleRequest(r, g, o, cs, nf) ==
  LET redirect == /\ r.listener = "http"
                  /\ shouldRedirectToHttps(o, cs, r.host, g.target, g.sslRedirect)
      out == outcomeOf(g, redirect)
      q == [r EXCEPT !.outcome = out, !.target = g.target, !.reqUrl = g.reqUrl,
                     !.savedUrl = g.savedUrl, !.routeOpts = g.opts,
                     !.sslRedirect = g.sslRedirect,
                     !.onRequestCalls = IF g.hook THEN 1 ELSE 0,
                     !.pc = IF out = "forwarded" THEN "forwarding" ELSE "done"]
  IN CASE out = "error" -> catchError(q, "undefined", NoOpts, o)
       [] out = "notFound" -> notFoundResponse(q, nf)
       [] out = "skipped" -> thenOnResponse(hookResponse(q), o)
       [] out = "redirected" -> thenOnResponse(redirectToHttps(q), o)
       [] OTHER -> forwardWeb(q, o, g.proxy)

\* respondNotFound(req, socket) on the socket of an upgrade: statusCode becomes
\* a property of the socket, no status line or header is written; the default
\* responder writes "Not Found" and ends the socket
socketNotFound(r, nf) ==
  [r EXCEPT !.responder = nf, !.status = 404, !.ended = TRUE,
            !.body = IF nf = "default" THEN "Not Found" ELSE "custom"]

\* the then-callback of _websocketsUpgrade on the result g of _getRouteTarget
\* for the upgrade request r; the promise has no catch callback, so that an
\* exception of _getRouteTarget is handled by nobody
_websocketsUpgrade(r, g, nf) ==
  LET out == IF g.threw THEN "unhandled"
             ELSE IF g.target \in {"undefined", "false"} THEN "notFound"
             ELSE "upgraded"
      q == [r EXCEPT !.outcome = out, !.target = g.target, !.reqUrl = g.reqUrl,
                     !.savedUrl = g.savedUrl, !.routeOpts = g.opts,
                     !.sslRedirect = g.sslRedirect,
                     !.onRequestCalls = IF g.hook THEN 1 ELSE 0,
                     !.pc = "done"]
  IN CASE out = "unhandled" -> q
       [] out = "notFound" -> socketNotFound(q, nf)
       [] OTHER -> [q EXCEPT !.ws = @ + 1, !.upstreamUrl = q.reqUrl, !.via = "default"]

\* the last n elements of s
lastN(s, n) == SubSeq(s, IF Len(s) > n THEN Len(s) - n + 1 ELSE 1, Len(s))

---------------------------------------------------------------------------
(* Initial state and actions *)

NoProbe == [url |-> <<>>, path |-> <<>>, result |-> "unset"]

\* this.routing = {} and an empty routeCache
EmptyTable == [h \in {} |-> <<>>]
EmptyCache == [k \in {} |-> <<>>]

\* the options of the constructor: whether an HTTPS listener is created
\* (opts.ssl with a port), whether opts.letsencrypt (with its path) is given and
\* whether opts.errorHandler is given; the HTTP listener always exists.
\* renewWithin and minRenewTime are those of opts.letsencrypt, in hours; 0 is a
\* value that || takes as missing (undefined or 0)
PlainOpts == [https |-> FALSE, letsencrypt |-> FALSE, errorHandler |-> FALSE,
              renewWithin |-> 0, minRenewTime |-> 0]
ServerOpts == [https : BOOLEAN, letsencrypt : BOOLEAN, errorHandler : BOOLEAN,
               renewWithin : {0}, minRenewTime : {0}]

\* this.certs = {}
EmptyCerts == [h \in {} |-> ""]

NoCall == [op |-> "none", threw |-> FALSE, returned |-> "undefined"]

\* no entry of this.certs has a renewalTimeout
NoTimeouts == [h \in {} |-> 0]

\* most connections a listener accepts
MaxConns == 3

\* most events the forwarder emits for one request
MaxEvents == 2

ConnIds == 1..MaxConns

\* this._connections = {}, this._connId = 0 and the listeners listening; no
\* timer is pending
LifecycleInit ==
  /\ timers = {}
  /\ renewalTimeout = NoTimeouts
  /\ timerSeq = 0
  /\ _connections = {}
  /\ _connId = 0
  /\ openSockets = {}
  /\ shutdowns = <<>>
  /\ ended = [c \in ConnIds |-> 0]
  /\ listening = TRUE
  /\ listenersClosed = FALSE
  /\ closePromise = "none"

\* the state the constructor leaves, apart from the pipeline and the table
ServerInit(o) ==
  /\ thisOpts = o
  /\ certs = EmptyCerts
  /\ acmeRequests = EmptyBag
  /\ respondNotFound = "default"
  /\ otherResponder = "none"
  /\ lastCall = NoCall
  /\ LifecycleInit

Init ==
  /\ routing = EmptyTable
  /\ resolvers = <<"default">>
  /\ routeCache = EmptyCache
  /\ reqs = [i \in ReqIds |-> IdleReq]
  /\ picks = [k \in Hosts \X Paths |-> <<>>]
  /\ probe = NoProbe
  /\ ServerInit(PlainOpts)

\* the number of target URLs in the table
RECURSIVE sumUrls(_)
sumUrls(routes) == IF routes = <<>> THEN 0 ELSE Len(Head(routes).urls) + sumUrls(Tail(routes))
RECURSIVE totalOver(_, _)
totalOver(rt, hosts) ==
  IF hosts = {} THEN 0
  ELSE LET h == CHOOSE x \in hosts : TRUE IN sumUrls(rt[h]) + totalOver(rt, hosts \ {h})
totalUrls(rt) == totalOver(rt, DOMAIN rt)

\* this.certs[host] = entry
setCert(cs, host, entry) ==
  [h \in (DOMAIN cs) \cup {host} |-> IF h = host THEN entry ELSE cs[h]]

\* delete f[host], for the certificate store and for the renewalTimeout fields
deleteKey(f, host) == [h \in (DOMAIN f) \ {host} |-> f[h]]

\* durations are in hours: 60 * 60 * 1000 ms and ONE_MONTH
ONE_HOUR == 1
ONE_MONTH == 720

\* most calls of letsencrypt.getCertificates outstanding at a time, and most
\* renewal timers created
MaxAcme == 2
MaxTimers == 2

\* ssl.letsencrypt of a route registered with the option ssl "letsencrypt"
LetsencryptOpts == [email |-> "admin@a.com", production |-> FALSE]

\* the call letsencrypt.getCertificates(domain, email, production, renew, log)
\* that updateCertificates(domain, email, production, renewWithin, renew) makes:
\* the outstanding calls after it
updateCertificates(acme, domain, email, production, renewWithin, renew) ==
  acme (+) SetToBag({[domain |-> domain, email |-> email, production |-> production,
                      renewWithin |-> renewWithin, renew |-> renew]})

\* the ssl part of register for the option ssl of a route of host: how it ends
\* ("throws" at the assert, "returns" before the table is touched, or
\* "continues"), the certificate store and the outstanding requests after it
registerSsl(o, cs, acme, host, ssl) ==
  IF ssl = "undefined" THEN [end |-> "continues", certs |-> cs, acme |-> acme]
  ELSE IF ~o.https THEN [end |-> "throws", certs |-> cs, acme |-> acme]
  ELSE IF host \in DOMAIN cs /\ cs[host] = "context"
    THEN [end |-> "continues", certs |-> cs, acme |-> acme]
  ELSE IF ssl \in {"certs", "noRedirect"}
    THEN [end |-> "continues", certs |-> setCert(cs, host, "context"), acme |-> acme]
  ELSE IF ssl = "letsencrypt"
    THEN IF ~o.letsencrypt
         THEN [end |-> "returns", certs |-> cs, acme |-> acme]
         ELSE [end |-> "continues", certs |-> cs,
               acme |-> updateCertificates(acme, host, LetsencryptOpts.email,
                          LetsencryptOpts.production,
                          IF o.renewWithin # 0 THEN o.renewWithin ELSE ONE_MONTH, FALSE)]
  ELSE [end |-> "continues", certs |-> setCert(cs, host, "undefined"), acme |-> acme]

\* proxy.register(src, target, opts)
Register(host, pathname, target, opts) ==
  /\ totalUrls(routing) < MaxTargets
  /\ LET s == registerSsl(thisOpts, certs, acmeRequests, host, opts.ssl)
     IN /\ s.acme # acmeRequests => BagCardinality(acmeRequests) < MaxAcme
        /\ routing' = IF s.end = "continues"
                      THEN register(routing, host, pathname, target, opts)
                      ELSE routing
        /\ picks' = IF s.end = "continues"
                    THEN [picks EXCEPT ![<<host, pathname>>] = <<>>]
                    ELSE picks
        /\ certs' = s.certs
        /\ acmeRequests' = s.acme
        /\ lastCall' = [op |-> "register", threw |-> s.end = "throws",
                        returned |-> IF s.end = "continues" THEN "this" ELSE "undefined"]
  /\ UNCHANGED <<resolvers, routeCache, reqs, probe, thisOpts, respondNotFound,
                 timerVars, connVars,
                 otherResponder>>

\* renewTime that is kept also when it is not positive
renewTimeNoClamp(expiresIn, renewWithin, minRenewTime) ==
  expiresIn - renewWithin

\* renewTime of updateCertificates for certs.expiresAt - Date.now() = expiresIn
renewTime(expiresIn, renewWithin, minRenewTime) ==
  LET t == expiresIn - renewWithin
  IN IF t > 0 THEN t ELSE IF minRenewTime # 0 THEN minRenewTime ELSE ONE_HOUR

\* the first callback of updateCertificates for the call req of
\* getCertificates that yielded certificates expiring in expiresIn: the
\* certificate store, the renewalTimeout fields and the pending timers after it.
\* The new context replaces the entry of the domain, and with it the
\* renewalTimeout the old entry had; the timer of the old entry is not cleared
installCertificates(o, cs, rt, ts, seq, req, expiresIn) ==
  LET delay == renewTime(expiresIn, req.renewWithin, o.minRenewTime)
      timer == [id |-> seq + 1, domain |-> req.domain, email |-> req.email,
                production |-> req.production, renewWithin |-> req.renewWithin,
                expiresIn |-> expiresIn, delay |-> delay]
  IN [certs |-> setCert(cs, req.domain, "context"),
      renewalTimeout |-> setCert(rt, req.domain, seq + 1),
      timers |-> ts \cup {timer},
      timerSeq |-> seq + 1]

\* what the certificates obtained expire in
ExpiresIn == {720, 2160}

\* the calls of getCertificates that can be outstanding
AcmeCalls == [domain : Hosts, email : {LetsencryptOpts.email},
              production : {LetsencryptOpts.production},
              renewWithin : {ONE_MONTH, 1000}, renew : BOOLEAN]

\* the promise of letsencrypt.getCertificates for the call req settles, with
\* certificates (ok) that expire in expiresIn or without
GotCertificates(req, ok, expiresIn) ==
  /\ BagIn(req, acmeRequests)
  /\ acmeRequests' = acmeRequests (-) SetToBag({req})
  /\ ok => timerSeq < MaxTimers
  /\ LET u == installCertificates(thisOpts, certs, renewalTimeout, timers, timerSeq,
                                  req, expiresIn)
     IN /\ certs' = IF ok THEN u.certs ELSE certs
        /\ renewalTimeout' = IF ok THEN u.renewalTimeout ELSE renewalTimeout
        /\ timers' = IF ok THEN u.timers ELSE timers
        /\ timerSeq' = IF ok THEN u.timerSeq ELSE timerSeq
  /\ UNCHANGED <<routing, resolvers, routeCache, reqs, probe, picks, thisOpts,
                 respondNotFound, lastCall, connVars,
                 otherResponder>>

\* renewCertificate, the callback of a renewal timer, for the timer t: a
\* function declaration that safe.setTimeout calls, so its this is not the
\* proxy: this.log.info throws a TypeError and this.updateCertificates is not
\* reached. The outstanding calls of getCertificates after it and whether it threw
renewCertificate(acme, t) == [threw |-> TRUE, acme |-> acme]

\* the pending renewal timer of id id
timerOf(ts, id) == CHOOSE t \in ts : t.id = id

\* the renewal timer of id id fires
RenewalTimerFires(id) ==
  /\ \E t \in timers : t.id = id
  /\ LET t == timerOf(timers, id)
         r == renewCertificate(acmeRequests, t)
     IN /\ timers' = timers \ {t}
        /\ acmeRequests' = r.acme
        /\ lastCall' = [op |-> "renewCertificate", threw |-> r.threw,
                        returned |-> "undefined"]
  /\ UNCHANGED <<routing, resolvers, routeCache, reqs, probe, picks, thisOpts, certs,
                 respondNotFound, renewalTimeout, timerSeq, connVars,
                 otherResponder>>

\* the part of unregister that runs when the urls of the route of src are
\* empty: safe.clearTimeout of the renewalTimeout of the entry of the hostname,
\* then delete certs[src.hostname]
unregisterCerts(cs, rt, ts, host) ==
  [certs |-> deleteKey(cs, host),
   renewalTimeout |-> deleteKey(rt, host),
   timers |-> IF host \in DOMAIN cs /\ cs[host] = "context" /\ host \in DOMAIN rt
              THEN {t \in ts : t.id # rt[host]}
              ELSE ts]

\* proxy.unregister(src, target); target is NoTarget when the argument is left out.
\* A request that already holds the route object sees it emptied and detached.
Unregister(host, pathname, target) ==
  /\ routing' = unregister(routing, host, pathname, target)
  /\ reqs' = [i \in ReqIds |->
               IF unregisterRemoves(routing, host, pathname, target)
               THEN [reqs[i] EXCEPT !.results =
                       [n \in 1..Len(reqs[i].results) |->
                          IF reqs[i].results[n] = TableRoute(host, pathname)
                          THEN DetachedRoute(host, pathname)
                          ELSE reqs[i].results[n]]]
               ELSE reqs[i]]
  /\ picks' = [picks EXCEPT ![<<host, pathname>>] = <<>>]
  /\ LET u == unregisterCerts(certs, renewalTimeout, timers, host)
         removes == unregisterRemoves(routing, host, pathname, target)
     IN /\ certs' = IF removes THEN u.certs ELSE certs
        /\ renewalTimeout' = IF removes THEN u.renewalTimeout ELSE renewalTimeout
        /\ timers' = IF removes THEN u.timers ELSE timers
  /\ UNCHANGED <<resolvers, routeCache, probe, thisOpts, acmeRequests, respondNotFound,
                 lastCall, timerSeq, connVars,
                 otherResponder>>

\* _saveConnection taking the number of entries for the counter
_saveConnectionCountsEntries(conns, connId) ==
  [_connections |-> conns \cup {Cardinality(conns) + 1}, _connId |-> Cardinality(conns) + 1,
   id |-> Cardinality(conns) + 1]

\* ReverseProxy.prototype._saveConnection(conn): the registry and the counter
\* after it, and the id given to the connection
_saveConnection(conns, connId) ==
  [_connections |-> conns \cup {connId + 1}, _connId |-> connId + 1, id |-> connId + 1]

\* a listener emits 'connection' for a socket it accepted
Accept(listener) ==
  /\ listening
  /\ listener = "https" => thisOpts.https
  /\ _connId < MaxConns
  /\ LET s == _saveConnection(_connections, _connId)
     IN /\ _connections' = s._connections
        /\ _connId' = s._connId
        /\ openSockets' = openSockets \cup {s.id}
  /\ UNCHANGED <<routing, resolvers, routeCache, reqs, probe, picks, serverVars,
                 timerVars, shutdowns, ended, listening,
                 listenersClosed, closePromise>>

\* the 'close' listener that _saveConnection gave the connection of id id
connClosed(conns, id) == conns \ {id}

\* the socket of connection id emits 'close'
SocketClose(id) ==
  /\ id \in openSockets
  /\ openSockets' = openSockets \ {id}
  /\ _connections' = connClosed(_connections, id)
  /\ UNCHANGED <<routing, resolvers, routeCache, reqs, probe, picks, serverVars,
                 timerVars, _connId, shutdowns, ended, listening,
                 listenersClosed, closePromise>>

\* close that leaves the registry as it is
closeKeepsRegistry(conns, pending, shutdown) ==
  IF shutdown /\ conns # {}
  THEN [_connections |-> conns, shutdowns |-> Append(pending, conns)]
  ELSE [_connections |-> conns, shutdowns |-> pending]

\* ReverseProxy.prototype.close(shutdown): the registry and the pending
\* shutdown timers after it
close(conns, pending, shutdown) ==
  IF shutdown /\ conns # {}
  THEN [_connections |-> {}, shutdowns |-> Append(pending, conns)]
  ELSE [_connections |-> conns, shutdowns |-> pending]

\* proxy.close(shutdown): s.close(resolve) is called on every listener as well,
\* which stops listening; the promise returned is pending until every listener
\* has emitted 'close'
Close(shutdown) ==
  /\ LET c == close(_connections, shutdowns, shutdown)
     IN /\ _connections' = c._connections
        /\ shutdowns' = c.shutdowns
  /\ listening' = FALSE
  /\ closePromise' = "pending"
  /\ UNCHANGED <<routing, resolvers, routeCache, reqs, probe, picks, serverVars,
                 timerVars, _connId, openSockets, ended, listenersClosed>>

\* the timer callback ending no connection
endConnectionsNone(ends, captured) == ends

\* the callback of the timer of close(shutdown) on the registry it captured
endConnections(ends, captured) ==
  [c \in DOMAIN ends |-> IF c \in captured THEN ends[c] + 1 ELSE ends[c]]

\* the oldest pending timer of close(shutdown) fires, 250 ms after the call
ShutdownTimerFires ==
  /\ shutdowns # <<>>
  /\ ended' = endConnections(ended, Head(shutdowns))
  /\ shutdowns' = Tail(shutdowns)
  /\ UNCHANGED <<routing, resolvers, routeCache, reqs, probe, picks, serverVars,
                 timerVars, _connections, _connId, openSockets, listening,
                 listenersClosed, closePromise>>

\* a listener on which close was called emits 'close' once every connection it
\* accepted has closed
drained(isListening, open) == ~isListening /\ open = {}

\* every listener has emitted 'close': the callbacks given to s.close resolve
\* the promises that close returned
ListenersClosed ==
  /\ closePromise = "pending"
  /\ drained(listening, openSockets)
  /\ listenersClosed' = TRUE
  /\ closePromise' = "resolved"
  /\ UNCHANGED <<routing, resolvers, routeCache, reqs, probe, picks, serverVars,
                 timerVars, _connections, _connId, openSockets, shutdowns, ended,
                 listening>>

\* the socket of a connection that the timer of close(shutdown) ended emits
\* 'close'
EndedSocketCloses(id) == ended[id] >= 1 /\ SocketClose(id)

\* the index of the first resolver result that is a synchronous throw, 0 if none
firstThrow(results) ==
  LET idx == {n \in 1..Len(results) : results[n].kind = "throws"}
  IN IF idx = {} THEN 0 ELSE CHOOSE n \in idx : \A m \in idx : n <= m

\* the challenge resolver of setupLetsencrypt; "/." stands for the prefix
\* /.well-known/acme-challenge
challengeResolver(host, url) ==
  IF slice(url, 2) = <<"/", ".">> THEN TargetString("127.0.0.1:3000") ELSE Undefined

\* a request arrives on a listener ("http" or "https"; "upgrade" is the upgrade
\* event of either): _getSource, then resolve
\* calls every resolver of the pipeline in order; custom resolvers return what
\* custom gives them. A resolver that throws ends the handler: the exception
\* leaves resolve, _getRouteTarget and the listener's callback
NewRequest(i, listener, hostHeader, url, custom) ==
  /\ reqs[i].pc \in {"idle", "done"}
  /\ listener = "https" => thisOpts.https
  /\ LET results == [n \in 1..Len(resolvers) |->
                       IF resolvers[n] = "default"
                       THEN _defaultResolver(routing, toLowerCase(hostHeader), url)
                       ELSE IF resolvers[n] = "challenge"
                       THEN challengeResolver(toLowerCase(hostHeader), url)
                       ELSE custom[resolvers[n]]]
         k == firstThrow(results)
         r == [IdleReq EXCEPT !.listener = listener, !.host = hostHeader, !.url = url]
     IN reqs' = [reqs EXCEPT ![i] =
                   IF k = 0
                   THEN [r EXCEPT !.pc = "resolving", !.results = results]
                   ELSE [r EXCEPT !.pc = "done", !.results = SubSeq(results, 1, k),
                                  !.outcome = "uncaught"]]
  /\ UNCHANGED <<routing, resolvers, routeCache, probe, picks, serverVars,
                 timerVars, connVars>>

\* every resolver has returned: the then-callbacks of resolve, of _getRouteTarget
\* and of the request handler run
Resolved(i) ==
  /\ reqs[i].pc = "resolving"
  /\ LET r == resolve(reqs[i].results, reqs[i].url, routeCache)
         g == _getRouteTarget(routing, r.cache, r.route, reqs[i].url)
     IN /\ routing' = g.routing
        /\ routeCache' = g.cache
        /\ reqs' = [reqs EXCEPT ![i] =
                      IF reqs[i].listener = "upgrade"
                      THEN _websocketsUpgrade([reqs[i] EXCEPT !.route = r.route], g,
                                              respondNotFound)
                      ELSE handleRequest([reqs[i] EXCEPT !.route = r.route], g, thisOpts,
                                         certs, respondNotFound)]
        /\ picks' = IF r.route.kind = "route"
                    THEN [picks EXCEPT ![<<r.route.host, r.route.path>>] =
                            lastN(Append(@, g.j), Len(routing[r.route.host][findPath(routing[r.route.host], r.route.path)].urls))]
                    ELSE picks
  /\ UNCHANGED <<resolvers, probe, serverVars, timerVars, connVars>>

\* the forwarder emits 'end' for the request: the upstream response has been
\* piped to the client; with a forward defer the onResponse hook runs
ForwardEnd(i) ==
  /\ reqs[i].pc = "forwarding"
  /\ LET r == [reqs[i] EXCEPT !.pc = "done", !.forward = "ended", !.status = 200,
                              !.headersSent = TRUE, !.ended = TRUE, !.events = 1]
     IN reqs' = [reqs EXCEPT ![i] = proxyOnEnd(r, thisOpts)]
  /\ UNCHANGED <<routing, resolvers, routeCache, probe, picks, serverVars,
                 timerVars, connVars>>

\* the forwarder emits 'error' (or 'econnreset') for the request with an error of
\* code code, before anything of the upstream response reached the client or,
\* midStream, after its headers did; a refused connection has no response
ForwardError(i, code, midStream) ==
  /\ reqs[i].pc = "forwarding"
  /\ ~(code = "ECONNREFUSED" /\ midStream)
  /\ LET r == [reqs[i] EXCEPT !.pc = "done", !.forward = "failed",
                              !.status = IF midStream THEN 200 ELSE @,
                              !.headersSent = midStream, !.events = 1]
     IN reqs' = [reqs EXCEPT ![i] = proxyOnError(r, code, thisOpts)]
  /\ UNCHANGED <<routing, resolvers, routeCache, probe, picks, serverVars,
                 timerVars, connVars>>

\* the forwarder emits one more event for a request whose forward has ended or
\* failed: 'end', or 'error' / 'econnreset' with an error of code code
ForwardAgain(i, event, code) ==
  /\ reqs[i].pc = "done"
  /\ reqs[i].forward \in {"ended", "failed"}
  /\ reqs[i].events < MaxEvents
  /\ LET r == [reqs[i] EXCEPT !.events = @ + 1]
     IN reqs' = [reqs EXCEPT ![i] = IF event = "end" THEN proxyOnEnd(r, thisOpts)
                                    ELSE proxyOnError(r, code, thisOpts)]
  /\ UNCHANGED <<routing, resolvers, routeCache, probe, picks, serverVars,
                 timerVars, connVars>>

\* proxy.notFound(callback)
NotFound ==
  /\ respondNotFound' = "custom"
  /\ UNCHANGED <<routing, resolvers, routeCache, reqs, probe, picks, thisOpts, certs,
                 acmeRequests, lastCall, timerVars, connVars,
                 otherResponder>>

\* another ReverseProxy of the process has a request without route: its request
\* handler calls respondNotFound, the variable of the module
OtherMiss ==
  /\ otherResponder' = respondNotFound
  /\ UNCHANGED <<routing, resolvers, routeCache, reqs, probe, picks, thisOpts, certs,
                 acmeRequests, respondNotFound, lastCall, timerVars, connVars>>

NoCustom == <<>>

Next ==
  \/ \E h \in Hosts, p \in Paths, t \in TargetArgs, o \in {NoHooks} : Register(h, p, t, o)
  \/ \E h \in Hosts, p \in Paths, t \in TargetArgs \cup {NoTarget} : Unregister(h, p, t)
  \/ \E i \in ReqIds, q \in ReqInputs : NewRequest(i, "http", q[1], q[2], NoCustom)
  \/ \E i \in ReqIds : Resolved(i)
  \/ \E i \in ReqIds : ForwardEnd(i)

Spec == Init /\ [][Next]_vars

\* one request at a time
SerialReqIds == {"r1"}

NextTable ==
  \/ \E h \in Hosts, p \in Paths, t \in TargetArgs, o \in {NoHooks} : Register(h, p, t, o)
  \/ \E h \in Hosts, p \in Paths, t \in TargetArgs \cup {NoTarget} : Unregister(h, p, t)
  \/ \E i \in SerialReqIds, q \in ReqInputs : NewRequest(i, "http", q[1], q[2], NoCustom)
  \/ \E i \in SerialReqIds : Resolved(i)
  \/ \E i \in SerialReqIds : ForwardEnd(i)

SpecTable == Init /\ [][NextTable]_vars

---------------------------------------------------------------------------
(* Properties of the routing table *)

\* the routes of the table, as <<hostname, index in the bucket>>
RoutesOf(rt) == {<<h, i>> \in (DOMAIN rt) \X (1..MaxTargets + 1) : i <= Len(rt[h])}

\* C1: every route present in the routing table has an integer rr with
\* 0 <= rr < |urls|.
RrInRange ==
  \A hi \in RoutesOf(routing) :
    LET r == routing[hi[1]][hi[2]]
    IN r.rr >= 0 /\ r.rr < Len(r.urls)

\* C2: each selection on a route returns urls[rr] for the rr before it and
\* advances rr by one modulo |urls|, every selection with its own increment; with
\* N targets and no register or unregister in between, N consecutive selections
\* pick each target exactly once.
RoundRobinPicksEachOnce ==
  \A hi \in RoutesOf(routing) :
    LET r == routing[hi[1]][hi[2]]
        N == Len(r.urls)
        s == picks[<<hi[1], r.path>>]
    IN /\ \A n \in 1..Len(s) : s[n] >= 0 /\ s[n] < N
       /\ \A n \in 1..(Len(s) - 1) : s[n + 1] = (s[n] + 1) % N
       /\ Len(s) > 0 => r.rr = (s[Len(s)] + 1) % N
       /\ Len(s) = N => {s[n] : n \in 1..N} = 0..(N - 1)

\* C3 as claimed: for every table state, src and target, register(src, target)
\* followed by unregister(src, target) leaves the routing table as it was.
RegisterUnregisterIdentity ==
  \A h \in Hosts, p \in Paths, t \in TargetArgs, o \in RegisterOpts :
    unregister(register(routing, h, p, t, o), h, p, t) = routing

\* the hrefs of the route at (host, pathname), {} when there is none
hrefsAt(rt, host, pathname) ==
  LET routes == bucketOf(rt, host)
      i == findPath(routes, pathname)
  IN IF i = 0 THEN {} ELSE {routes[i].urls[n].href : n \in 1..Len(routes[i].urls)}

\* C3, amended: when the hostname of src already has a bucket and the href of
\* target is not yet a URL of the route at src's path, register(src, target)
\* followed by unregister(src, target) leaves the routing table as it was.
RegisterUnregisterIdentityOnFreshTarget ==
  \A h \in Hosts, p \in Paths, t \in TargetArgs, o \in RegisterOpts :
    (h \in DOMAIN routing /\ hrefOf(t) \notin hrefsAt(routing, h, p))
      => unregister(register(routing, h, p, t, o), h, p, t) = routing

\* C3 witness: a bucket holding a route with one URL and an advanced rr, to which
\* a second target is added and removed again, and a bucket where register
\* creates a route beside an existing one
RegisterUnregisterWitness ==
  \E h \in DOMAIN routing :
    /\ Len(routing[h]) = 1
    /\ routing[h][1].rr = 0
    /\ Len(routing[h][1].urls) = 1
    /\ Len(picks[<<h, routing[h][1].path>>]) = 1
    /\ \E p \in Paths, t \in TargetArgs :
         /\ hrefOf(t) \notin hrefsAt(routing, h, p)
         /\ findPath(routing[h], p) = 0
         /\ Len(register(routing, h, p, t, NoHooks)[h]) = 2
         /\ unregister(register(routing, h, p, t, NoHooks), h, p, t) = routing

\* the position of pathname in bucket, 0 when absent
posOf(bucket, pathname) == findPath(bucket, pathname)

\* a bucket is ordered by non-increasing path length
SortedByLength(bucket) ==
  \A i \in 1..Len(bucket), j \in 1..Len(bucket) :
    i < j => Len(bucket[i].path) >= Len(bucket[j].path)

\* from bucket old to bucket new, routes of equal path length that stay keep their
\* order, and a route that is new comes after the ones of its length that stay
TiesKeepRegistrationOrder(old, new) ==
  \A i \in 1..Len(new), j \in 1..Len(new) :
    (i < j /\ Len(new[i].path) = Len(new[j].path) /\ posOf(old, new[j].path) # 0)
      => (posOf(old, new[i].path) # 0 /\ posOf(old, new[i].path) < posOf(old, new[j].path))

\* C4: after every register and unregister each host bucket is ordered by
\* non-increasing path length, and routes of equal path length are in the order
\* in which they were first registered.
BucketsSortedStable ==
  /\ [](\A h \in DOMAIN routing : SortedByLength(routing[h]))
  /\ [][\A h \in DOMAIN routing' :
          TiesKeepRegistrationOrder(bucketOf(routing, h), routing'[h])]_vars

\* C4 witness: a bucket with a longer path registered after a shorter one
BucketsSortedWitness ==
  \E h \in DOMAIN routing :
    /\ Len(routing[h]) = 2
    /\ routing[h][1].path = PathB
    /\ routing[h][2].path = Root
    /\ routing[h][2].rr = 0 /\ Len(picks[<<h, Root>>]) = 1

\* C5: every route present in the routing table has at least one target URL.
RoutesHaveTargets ==
  \A hi \in RoutesOf(routing) : Len(routing[hi[1]][hi[2]].urls) >= 1

\* C5 witness: unregister has emptied a route and taken it out of its bucket
RouteRemovedWitness ==
  \E h \in DOMAIN routing :
    /\ Len(routing[h]) = 1
    /\ \E i \in ReqIds : reqs[i].pc = "resolving" /\
         \E n \in 1..Len(reqs[i].results) : reqs[i].results[n].kind = "detachedRoute"

\* u matches route path p: p is "/", or u starts with p and what follows p in u
\* is nothing, "/" or "?"
RefMatch(u, p) ==
  \/ p = Root
  \/ /\ Len(u) >= Len(p)
     /\ \A k \in 1..Len(p) : u[k] = p[k]
     /\ (Len(u) > Len(p) => u[Len(p) + 1] \in {"/", "?"})

\* URLs the table resolver is asked about: "", "/", "/a", "/a?q", "/a/b", "/ab", "/b/", "/b?q"
ProbeUrls == {<<>>, Root, PathA, <<"/", "a", "?", "q">>, <<"/", "a", "/", "b">>,
              <<"/", "a", "b">>, <<"/", "b", "/">>, <<"/", "b", "?", "q">>}

\* C6: for every host and URL the table resolver returns the route with the
\* longest path among the host's routes that match the URL, and nothing when the
\* host has no bucket or no route of the bucket matches.
TableResolverLongestMatch ==
  \A h \in Hosts \cup {"c.com"}, u \in ProbeUrls :
    LET res == _defaultResolver(routing, h, u)
        bucket == bucketOf(routing, h)
        matching == {bucket[i].path : i \in {k \in 1..Len(bucket) : RefMatch(u, bucket[k].path)}}
    IN IF h \notin DOMAIN routing \/ matching = {}
       THEN res = Undefined
       ELSE /\ res.kind = "route" /\ res.host = h
            /\ res.path \in matching
            /\ \A q \in matching : Len(q) <= Len(res.path)

\* C6 witness: a request for /a/b was resolved by the table to the route /a of a
\* bucket that also holds the route /
TableResolverWitness ==
  \E i \in ReqIds :
    /\ reqs[i].pc = "resolving"
    /\ reqs[i].url = <<"/", "a", "/", "b">>
    /\ reqs[i].results = <<TableRoute("a.com", PathA)>>
    /\ findPath(bucketOf(routing, "a.com"), Root) # 0

---------------------------------------------------------------------------
(* Registering routes with the ssl option *)

SslOpts == {[NoHooks EXCEPT !.ssl = x] :
              x \in {"undefined", "certs", "default", "letsencrypt", "noRedirect"}}

InitSsl ==
  /\ routing = EmptyTable
  /\ resolvers = <<"default">>
  /\ routeCache = EmptyCache
  /\ reqs = [i \in ReqIds |-> IdleReq]
  /\ picks = [k \in Hosts \X Paths |-> <<>>]
  /\ probe = NoProbe
  /\ \E o \in ServerOpts : ServerInit(o)

NextSsl ==
  \/ \E h \in Hosts, p \in {Root, PathA}, o \in SslOpts : Register(h, p, "t1", o)
  \/ \E h \in Hosts, p \in {Root, PathA} : Unregister(h, p, NoTarget)
  \/ \E r \in AcmeCalls, ok \in BOOLEAN, e \in {2160} : GotCertificates(r, ok, e)

SpecSsl == InitSsl /\ [][NextSsl]_vars

\* C20: register with opts.ssl when no HTTPS listener is configured, and
\* register with opts.ssl.letsencrypt when no global ACME path is configured,
\* both fail by throwing and leave the routing table and the certificate store
\* unchanged.
RegisterSslFailsLoudly ==
  [][\A h \in Hosts, p \in {Root, PathA}, o \in SslOpts :
       (/\ Register(h, p, "t1", o)
        /\ \/ o.ssl # "undefined" /\ ~thisOpts.https
           \/ o.ssl = "letsencrypt" /\ ~thisOpts.letsencrypt)
         => (lastCall'.threw /\ routing' = routing /\ certs' = certs)]_vars


Alphabet == {"/", "?", "a", "b"}

\* the strings over Alphabet of length at most n
StringsUpTo(n) == UNION {[1..k -> Alphabet] : k \in 0..n}

\* route paths: they start with "/"
RoutePaths == {s \in StringsUpTo(MaxUrlLen - 1) : Len(s) >= 1 /\ s[1] = "/"}

InitMatch ==
  /\ routing = EmptyTable
  /\ resolvers = <<"default">>
  /\ routeCache = EmptyCache
  /\ reqs = [i \in ReqIds |-> IdleReq]
  /\ picks = [k \in Hosts \X Paths |-> <<>>]
  /\ probe \in {[url |-> u, path |-> q, result |-> "unset"] :
                  u \in StringsUpTo(MaxUrlLen), q \in RoutePaths}
  /\ ServerInit(PlainOpts)

\* the resolver tests the URL against the route path
Match ==
  /\ probe.result = "unset"
  /\ probe' = [probe EXCEPT !.result =
                 IF pathMatches(probe.url, probe.path) THEN "match" ELSE "noMatch"]
  /\ UNCHANGED <<routing, resolvers, routeCache, reqs, picks, serverVars,
                 timerVars, connVars>>

NextMatch == Match

SpecMatch == InitMatch /\ [][NextMatch]_vars

Foo == <<"/", "f", "o", "o">>
Foobar == <<"/", "f", "o", "o", "b", "a", "r">>

\* C7: a URL u matches a route path p iff p is "/" or u starts with p and the
\* character of u right after p is the end of the string, "/" or "?"; URL
\* /foobar does not match path /foo and URL /foo does not match path /foobar.
PathMatchIsBoundedPrefix ==
  /\ probe.result # "unset" =>
       ((probe.result = "match") <=> RefMatch(probe.url, probe.path))
  /\ ~pathMatches(Foobar, Foo)
  /\ ~pathMatches(Foo, Foobar)

\* C7 witness: /a?b was matched with /a, where the prefix is followed by "?"
PathMatchWitness ==
  /\ probe.url = <<"/", "a", "?", "b">>
  /\ probe.path = PathA
  /\ probe.result = "match"

---------------------------------------------------------------------------
(* The URL rewrite on its own *)

\* target pathnames: /, /a and /a/
TargetPathnames == {Root, PathA, <<"/", "a", "/">>}

\* request URLs start with "/"; the route path is one that matches the URL
InitRewrite ==
  /\ routing = EmptyTable
  /\ resolvers = <<"default">>
  /\ routeCache = EmptyCache
  /\ reqs = [i \in ReqIds |-> IdleReq]
  /\ picks = [k \in Hosts \X Paths |-> <<>>]
  /\ probe \in {[url |-> u, path |-> q, target |-> t, result |-> <<>>, done |-> FALSE] :
                  u \in {x \in StringsUpTo(MaxUrlLen) : Len(x) >= 1 /\ x[1] = "/"},
                  q \in {y \in RoutePaths : y[Len(y)] # "?" },
                  t \in TargetPathnames}
  /\ pathMatches(probe.url, probe.path)
  /\ ServerInit(PlainOpts)

\* _getRouteTarget rewrites the URL of the request
Rewrite ==
  /\ ~probe.done
  /\ probe' = [probe EXCEPT !.result = rewriteUrl(probe.url, probe.path, probe.target),
                             !.done = TRUE]
  /\ UNCHANGED <<routing, resolvers, routeCache, reqs, picks, serverVars,
                 timerVars, connVars>>

NextRewrite == Rewrite

SpecRewrite == InitRewrite /\ [][NextRewrite]_vars

\* s without every "/" that follows a "/"
RefSqueeze(s) ==
  LET keep == {n \in 1..Len(s) : ~(n > 1 /\ s[n] = "/" /\ s[n - 1] = "/")}
  IN [k \in 1..Cardinality(keep) |->
        s[CHOOSE n \in keep : Cardinality({m \in keep : m <= n}) = k]]

\* the reference rewrite of URL u for route path p and target pathname t
RefRewrite(u, p, t) ==
  LET rest == IF Len(p) > 1 THEN [n \in 1..(Len(u) - Len(p)) |-> u[n + Len(p)]] ELSE u
  IN IF rest = <<>> THEN t
     ELSE IF rest[1] = "?" THEN t \o rest
     ELSE RefSqueeze(t \o rest)

\* C18: the URL sent upstream is the reference rewrite of the incoming URL u for
\* the matched route path p and target pathname t: p is stripped when |p| > 1; a
\* remainder starting with "/" is joined to t (POSIX join), a remainder starting
\* with "?" follows t directly with no "/" inserted, an empty remainder gives t.
RewriteIsReference ==
  probe.done => probe.result = RefRewrite(probe.url, probe.path, probe.target)

\* C18 witness: /a?b on route path /a with target pathname /a was rewritten to /a?b
RewriteWitness ==
  /\ probe.url = <<"/", "a", "?", "b">>
  /\ probe.path = PathA
  /\ probe.target = PathA
  /\ probe.done
  /\ probe.result = <<"/", "a", "?", "b">>

---------------------------------------------------------------------------
(* The resolver pipeline *)

\* what a custom resolver may return
CustomResults == {Undefined, TargetString("http://t1"), TargetString(BadTarget),
                  Descriptor(<<"t1", "t2">>, PathA), PlainObject, Number}

\* proxy.addResolver(resolver | [resolver, ...])
AddResolver(added) ==
  /\ resolvers' = addResolver(resolvers, added)
  /\ UNCHANGED <<routing, routeCache, reqs, probe, picks, serverVars,
                 timerVars, connVars>>

\* proxy.removeResolver(resolver)
RemoveResolver(resolver) ==
  /\ resolvers' = removeResolver(resolvers, resolver)
  /\ UNCHANGED <<routing, routeCache, reqs, probe, picks, serverVars,
                 timerVars, connVars>>

\* the table after register("a.com", "t1") and register("a.com/a", "t2")
InitResolve ==
  /\ routing = register(register(EmptyTable, "a.com", Root, "t1", NoHooks),
                        "a.com", PathA, "t2", NoHooks)
  /\ resolvers = <<"default">>
  /\ routeCache = EmptyCache
  /\ reqs = [i \in ReqIds |-> IdleReq]
  /\ picks = [k \in Hosts \X Paths |-> <<>>]
  /\ probe = NoProbe
  /\ ServerInit(PlainOpts)

\* requests to the registered host: a.com/a/b and a.com/ab
ResolveInputs == {<<"a.com", <<"/", "a", "/", "b">>>>, <<"a.com", <<"/", "a", "b">>>>}

NextResolve ==
  \/ \E r1 \in ResolveCustoms : AddResolver(<<r1>>)
  \/ \E r1 \in ResolveCustoms, r2 \in ResolveCustoms : AddResolver(<<r1, r2>>)
  \/ \E r \in ResolveCustoms \cup {"default"} : RemoveResolver(r)
  \/ \E i \in SerialReqIds, q \in ResolveInputs, c \in [ResolveCustoms -> CustomResults] :
       NewRequest(i, "http", q[1], q[2], c)
  \/ \E i \in SerialReqIds : Resolved(i)
  \/ \E i \in SerialReqIds : ForwardEnd(i)

SpecResolve == InitResolve /\ [][NextResolve]_vars

NextPipeline ==
  \/ \E r1 \in Customs : AddResolver(<<r1>>)
  \/ \E r1 \in Customs, r2 \in Customs : AddResolver(<<r1, r2>>)
  \/ \E r \in Customs \cup {"default"} : RemoveResolver(r)

SpecPipeline == Init /\ [][NextPipeline]_vars

---------------------------------------------------------------------------
(* Properties of the resolver pipeline and of resolve *)

\* the position of resolver r in pipeline, 0 when absent
placeOf(pipeline, r) ==
  LET idx == {n \in 1..Len(pipeline) : pipeline[n] = r}
  IN IF idx = {} THEN 0 ELSE CHOOSE n \in idx : \A m \in idx : n <= m

NoDuplicateResolver(pipeline) ==
  \A a \in 1..Len(pipeline), b \in 1..Len(pipeline) : a # b => pipeline[a] # pipeline[b]

NonIncreasingPriority(pipeline) ==
  \A a \in 1..Len(pipeline), b \in 1..Len(pipeline) :
    a < b => priorityOf(pipeline[a]) >= priorityOf(pipeline[b])

\* resolvers of equal priority that are in old and in new are in the same order
TiesKeepOrder(old, new) ==
  \A a \in 1..Len(new), b \in 1..Len(new) :
    (/\ a < b
     /\ priorityOf(new[a]) = priorityOf(new[b])
     /\ placeOf(old, new[a]) # 0
     /\ placeOf(old, new[b]) # 0)
      => placeOf(old, new[a]) < placeOf(old, new[b])

\* C8: after any sequence of addResolver and removeResolver calls the pipeline
\* contains no duplicate resolver, is ordered by non-increasing priority, and
\* resolvers of equal priority keep the relative order in which they were added.
PipelineSortedStable ==
  /\ [](NoDuplicateResolver(resolvers) /\ NonIncreasingPriority(resolvers))
  /\ [][TiesKeepOrder(resolvers, resolvers')]_vars

\* the path of the route built from a descriptor: route.path || '/'
RefPath(r) == IF r.path = <<>> THEN Root ELSE r.path

\* buildRoute cannot coerce r because one of its target URLs is not a valid URI
RefThrows(r) ==
  /\ r.kind \in {"string", "descriptor"}
  /\ r.urls # <<"">>
  /\ \E n \in 1..Len(r.urls) : r.urls[n] = BadTarget

\* r is non-empty, coercible and, when the coerced route is isResolved, its path
\* is "/" or prefixes url
RefQualifies(r, url) ==
  CASE r.kind \in {"route", "detachedRoute"} -> TRUE
    [] r.kind = "string" -> r.urls # <<"">> /\ r.urls[1] # BadTarget
    [] r.kind = "descriptor" ->
         /\ \A n \in 1..Len(r.urls) : r.urls[n] # BadTarget
         /\ RefMatch(url, RefPath(r))
    [] OTHER -> FALSE

\* the first index of results that qualifies, 0 when none does
RefFirst(results, url) ==
  LET idx == {n \in 1..Len(results) : RefQualifies(results[n], url)}
  IN IF idx = {} THEN 0 ELSE CHOOSE n \in idx : \A m \in idx : n <= m

\* the result resolve uses according to the claim
RefRoute(results, url) ==
  IF RefFirst(results, url) = 0 THEN Undefined ELSE results[RefFirst(results, url)]

\* a result that cannot be coerced for its invalid target comes before the first
\* result that qualifies
RefThrowsFirst(results, url) ==
  \E m \in 1..Len(results) :
    /\ RefThrows(results[m])
    /\ RefFirst(results, url) = 0 \/ m < RefFirst(results, url)

\* the route object built from result r is in the cache
CoercedInCache(r, cache) ==
  r.kind \in {"string", "descriptor"} =>
    /\ r \in DOMAIN cache
    /\ cache[r].isResolved
    /\ cache[r].path = (IF r.kind = "string" THEN Root ELSE RefPath(r))
    /\ Len(cache[r].urls) = Len(r.urls)
    /\ \A n \in 1..Len(r.urls) : cache[r].urls[n].href = hrefOf(r.urls[n])

\* request i goes from resolving to resolved in this step
ResolveStep(i) == reqs[i].pc = "resolving" /\ reqs'[i].pc # "resolving"

\* C9 as claimed: resolve returns the route coerced from the result of the first
\* resolver in pipeline order whose result is non-empty, coercible and, when
\* isResolved, has path "/" or a path that prefixes the URL; no route when none
\* qualifies.
ResolveUsesFirstQualifying ==
  [][\A i \in ReqIds : ResolveStep(i) =>
       /\ reqs'[i].route = RefRoute(reqs[i].results, reqs[i].url)
       /\ CoercedInCache(reqs'[i].route, routeCache')]_vars

\* C9, amended: as claimed, except that resolve yields no route when a result
\* whose target URL is not a valid URI (buildRoute throws on it) comes before the
\* first result that qualifies.
ResolveUsesFirstQualifyingUnlessThrow ==
  [][\A i \in ReqIds : ResolveStep(i) =>
       /\ reqs'[i].route = (IF RefThrowsFirst(reqs[i].results, reqs[i].url)
                            THEN Undefined
                            ELSE RefRoute(reqs[i].results, reqs[i].url))
       /\ CoercedInCache(reqs'[i].route, routeCache')]_vars

\* C9 witness: for /ab the first resolver returned a descriptor with path /a,
\* which the prefix check rejects, and resolve used the table route / of the
\* resolver after it
ResolveWitness ==
  \E i \in ReqIds :
    /\ reqs[i].pc = "forwarding"
    /\ reqs[i].url = <<"/", "a", "b">>
    /\ Len(reqs[i].results) = 2
    /\ reqs[i].results[1] = Descriptor(<<"t1", "t2">>, PathA)
    /\ reqs[i].results[2] = TableRoute("a.com", Root)
    /\ reqs[i].route = TableRoute("a.com", Root)

\* C10: when the first qualifying resolver result is a target string or a
\* descriptor with a url field, the request is forwarded to a target built from
\* it and does not end in the error path.
ResolvedTargetIsForwarded ==
  \A i \in ReqIds :
    (reqs[i].pc \in {"forwarding", "done"} /\ reqs[i].route.kind \in {"string", "descriptor"})
      => /\ reqs[i].outcome = "forwarded"
         /\ reqs[i].target \in {hrefOf(reqs[i].route.urls[n]) : n \in 1..Len(reqs[i].route.urls)}

---------------------------------------------------------------------------
(* Requests on routes with hooks and ssl options *)

\* the route options of the registered route
HookOpts ==
  {NoHooks,
   [NoHooks EXCEPT !.onRequest = "returnsUndefined"],
   [NoHooks EXCEPT !.onRequest = "returnsFalse"],
   [NoHooks EXCEPT !.onRequest = "returnsFalse", !.onResponse = "returns"],
   [NoHooks EXCEPT !.onResponse = "returns"],
   [NoHooks EXCEPT !.onResponse = "rejects"],
   [NoHooks EXCEPT !.onError = TRUE],
   [NoHooks EXCEPT !.onError = TRUE, !.onResponse = "returns"],
   [NoHooks EXCEPT !.onRequest = "throws"],
   [NoHooks EXCEPT !.onRequest = "throws", !.onError = TRUE],
   [NoHooks EXCEPT !.onResponse = "throws", !.onError = TRUE],
   [NoHooks EXCEPT !.ssl = "certs"],
   [NoHooks EXCEPT !.ssl = "default"],
   [NoHooks EXCEPT !.ssl = "noRedirect"],
   [NoHooks EXCEPT !.ssl = "certs", !.onResponse = "returns"],
   [NoHooks EXCEPT !.ssl = "certs", !.onRequest = "returnsFalse", !.onResponse = "returns"]}

HookTargets == {"t3/a", "127.0.0.1:3000"}

\* the pipeline the constructor builds: setupLetsencrypt adds the challenge resolver
initialResolvers(o) ==
  IF o.letsencrypt THEN addResolver(<<"default">>, <<"challenge">>) ELSE <<"default">>

\* a proxy constructed with options o, on which one route of a.com has been
\* registered with route options ro
InitHooks ==
  \E o \in ServerOpts, p \in {Root, PathA}, t \in HookTargets, ro \in HookOpts :
    /\ registerSsl(o, EmptyCerts, EmptyBag, "a.com", ro.ssl).end = "continues"
    /\ thisOpts = o
    /\ certs = registerSsl(o, EmptyCerts, EmptyBag, "a.com", ro.ssl).certs
    /\ acmeRequests = EmptyBag
    /\ LifecycleInit
    /\ respondNotFound = "default"
    /\ otherResponder = "none"
    /\ lastCall = [op |-> "register", threw |-> FALSE, returned |-> "this"]
    /\ routing = register(EmptyTable, "a.com", p, t, ro)
    /\ resolvers = initialResolvers(o)
    /\ routeCache = EmptyCache
    /\ reqs = [i \in ReqIds |-> IdleReq]
    /\ picks = [k \in Hosts \X Paths |-> <<>>]
    /\ probe = NoProbe

\* requests: a.com/a/b and c.com/a/b
HookInputs == {<<"a.com", <<"/", "a", "/", "b">>>>, <<"c.com", <<"/", "a", "/", "b">>>>}

\* what the resolver rA does on a request
HookResults == {Undefined, Throws, Rejects, TargetString("http://t1")}

ErrorCodes == {"ECONNREFUSED", "ECONNRESET"}

NextHooks ==
  \/ AddResolver(<<"rA">>)
  \/ NotFound
  \/ \E i \in SerialReqIds, l \in {"http", "https"}, q \in HookInputs, c \in [{"rA"} -> HookResults] :
       NewRequest(i, l, q[1], q[2], c)
  \/ \E i \in SerialReqIds : Resolved(i)
  \/ \E i \in SerialReqIds : ForwardEnd(i)
  \/ \E i \in SerialReqIds, code \in ErrorCodes, m \in BOOLEAN : ForwardError(i, code, m)

SpecHooks == InitHooks /\ [][NextHooks]_vars

---------------------------------------------------------------------------
(* Properties of the request handlers *)

\* the handler of request i has run its callbacks
Handled(i) == reqs[i].pc \in {"forwarding", "done"} /\ reqs[i].outcome # "uncaught"

\* C11: if any resolver of the pipeline throws or returns a rejected promise
\* while a request is resolved, the resolution yields no route and the request is
\* answered as a routing miss (404); the failure does not escape the request
\* handler and nothing is forwarded.
ResolverFailureIsRoutingMiss ==
  \A i \in ReqIds :
    (/\ reqs[i].pc = "done"
     /\ \E n \in 1..Len(reqs[i].results) : reqs[i].results[n].kind \in {"throws", "rejects"})
      => /\ reqs[i].outcome = "notFound"
         /\ reqs[i].status = 404
         /\ reqs[i].web = 0

\* C12: when no resolver yields a route for a request, the request is answered
\* with 404 through the current not-found responder, nothing is forwarded, no
\* route hook is invoked and the rr of every route is unchanged.
RoutingMissIs404 ==
  [][\A i \in ReqIds :
       (ResolveStep(i) /\ reqs'[i].route = Undefined) =>
         /\ reqs'[i].responder = respondNotFound
         /\ reqs'[i].status = 404
         /\ reqs'[i].ended
         /\ reqs'[i].web = 0
         /\ reqs'[i].forward = ""
         /\ reqs'[i].onRequestCalls = 0
         /\ reqs'[i].onResponseCalls = 0
         /\ reqs'[i].onErrorCalls = 0
         /\ routing' = routing
         /\ \A k \in DOMAIN routeCache : routeCache'[k].rr = routeCache[k].rr]_vars

\* C12 witness: a request whose resolver rejected was answered by the callback
\* given to notFound
RoutingMissWitness ==
  \E i \in ReqIds :
    /\ reqs[i].pc = "done"
    /\ reqs[i].outcome = "notFound"
    /\ reqs[i].responder = "custom"
    /\ reqs[i].results[1] = Rejects
    /\ reqs[i].status = 404

\* C13: if a route's onRequest hook returns false, the request is never handed
\* to the forwarder, on the HTTP and on the HTTPS listener, and the route's
\* onResponse hook, if set, is invoked exactly once with target false.
SkippedRequestIsNotForwarded ==
  \A i \in ReqIds :
    (/\ Handled(i)
     /\ reqs[i].onRequestCalls = 1
     /\ reqs[i].routeOpts.onRequest = "returnsFalse")
      => /\ reqs[i].pc = "done"
         /\ reqs[i].web = 0
         /\ reqs[i].forward = ""
         /\ reqs[i].routeOpts.onResponse # "undefined" =>
              (reqs[i].onResponseCalls = 1 /\ reqs[i].onResponseTarget = "false")

\* C13 witness: on the HTTPS listener the hook skipped the forward and onResponse
\* was called once with false
SkippedRequestWitness ==
  \E i \in ReqIds :
    /\ reqs[i].pc = "done"
    /\ reqs[i].listener = "https"
    /\ reqs[i].outcome = "skipped"
    /\ reqs[i].onResponseCalls = 1
    /\ reqs[i].onResponseTarget = "false"
    /\ reqs[i].web = 0

\* C14: when forwarding a request fails, exactly one error handler is invoked
\* with the error: the route's onError if set, otherwise the global errorHandler
\* if set, otherwise the default error handler; the route's onResponse is not
\* invoked for the request.
ForwardFailureHasOneHandler ==
  [][\A i \in ReqIds, code \in ErrorCodes, m \in BOOLEAN :
       ForwardError(i, code, m) =>
         /\ reqs'[i].err = code
         /\ reqs'[i].onErrorCalls = (IF reqs[i].routeOpts.onError THEN 1 ELSE 0)
         /\ reqs'[i].errorHandlerCalls =
              (IF ~reqs[i].routeOpts.onError /\ thisOpts.errorHandler THEN 1 ELSE 0)
         /\ reqs'[i].handleProxyErrorCalls =
              (IF ~reqs[i].routeOpts.onError /\ ~thisOpts.errorHandler THEN 1 ELSE 0)
         /\ reqs'[i].onResponseCalls = 0]_vars

\* C14 witness: a forward failed on a route with onError while a global
\* errorHandler is set, and only onError was called
ForwardFailureWitness ==
  \E i \in ReqIds :
    /\ reqs[i].forward = "failed"
    /\ thisOpts.errorHandler
    /\ reqs[i].onErrorCalls = 1
    /\ reqs[i].errorHandlerCalls = 0
    /\ reqs[i].handleProxyErrorCalls = 0

\* C15: a route's onResponse hook is invoked for a request only when the forward
\* of the request has completed successfully or when onRequest skipped the
\* forward, then at most once, and never before the forwarder signalled
\* completion.
OnResponseOnlyAfterEndOrSkip ==
  \A i \in ReqIds :
    reqs[i].onResponseCalls > 0 =>
      /\ reqs[i].onResponseCalls = 1
      /\ reqs[i].outcome = "skipped" \/ reqs[i].forward = "ended"

\* the urls of the table route that request i matched
MatchedUrls(i) ==
  LET routes == bucketOf(routing, reqs[i].route.host)
      k == findPath(routes, reqs[i].route.path)
  IN IF reqs[i].route.kind = "route" /\ k # 0 THEN routes[k].urls ELSE <<>>

\* C16 as claimed: a request on the HTTP listener whose matched route has
\* sslRedirect, whose source hostname has a certificate-store entry and whose
\* target host is not the ACME challenge host is answered with 302 and never
\* forwarded; a request on an HTTPS listener is never redirected.
HttpRequestIsRedirected ==
  \A i \in ReqIds :
    Handled(i) =>
      /\ (/\ reqs[i].listener = "http"
          /\ MatchedUrls(i) # <<>>
          /\ \A n \in 1..Len(MatchedUrls(i)) :
               /\ MatchedUrls(i)[n].sslRedirect
               /\ hostOf(MatchedUrls(i)[n].href) # letsencryptHost(thisOpts)
          /\ thisOpts.https
          /\ reqs[i].host \in DOMAIN certs)
           => (reqs[i].status = 302 /\ reqs[i].web = 0)
      /\ reqs[i].listener = "https" => reqs[i].outcome # "redirected"

\* C16, amended: the sslRedirect is that of the target the handler gets from
\* _getRouteTarget, which is false when the route's onRequest hook returned false.
HttpRequestWithRedirectTargetIsRedirected ==
  \A i \in ReqIds :
    Handled(i) =>
      /\ (/\ reqs[i].listener = "http"
          /\ reqs[i].target \notin {"false", "undefined"}
          /\ reqs[i].sslRedirect
          /\ hostOf(reqs[i].target) # letsencryptHost(thisOpts)
          /\ thisOpts.https
          /\ reqs[i].host \in DOMAIN certs)
           => (reqs[i].status = 302 /\ reqs[i].web = 0 /\ reqs[i].outcome = "redirected")
      /\ reqs[i].listener = "https" =>
           (reqs[i].outcome # "redirected" /\ reqs[i].location = <<>>)

\* C16 witness: an HTTP request for a host whose certificate entry is the
\* undefined sentinel was answered with 302
HttpRedirectWitness ==
  \E i \in ReqIds :
    /\ reqs[i].pc = "done"
    /\ reqs[i].listener = "http"
    /\ reqs[i].host \in DOMAIN certs
    /\ certs[reqs[i].host] = "undefined"
    /\ reqs[i].status = 302
    /\ reqs[i].web = 0

\* C17: the Location of the redirect carries the request URL exactly as the
\* client sent it, for every route path (including "/") and every target
\* pathname: neither the prefix strip nor the target-pathname join appears in it.
RedirectKeepsRequestUrl ==
  \A i \in ReqIds :
    reqs[i].outcome = "redirected" => reqs[i].location = reqs[i].url

\* C19: the default error handler writes status 502 when the error code is
\* ECONNREFUSED, otherwise 500 when the headers have not been sent, no status
\* when the headers have been sent, and always ends the response with the error
\* code as body.
DefaultErrorHandlerStatus ==
  \A i \in ReqIds :
    reqs[i].handleProxyErrorCalls > 0 =>
      /\ reqs[i].writeHead = (IF reqs[i].sentBefore THEN 0
                              ELSE IF reqs[i].err = "ECONNREFUSED" THEN 502
                              ELSE 500)
      /\ reqs[i].ended
      /\ reqs[i].body = reqs[i].err

\* C29: a request has a ForwardDefer iff it is forwarded and its route has
\* onResponse or onError or a global errorHandler is set; a forwarder error
\* for a request with a ForwardDefer rejects the defer and the listener of the
\* forwarder does not call the default handler, and for a request without one
\* the listener calls the default handler.
ForwardDeferTakesForwarderErrors ==
  /\ [](\A i \in ReqIds :
          reqs[i].defer <=> /\ reqs[i].outcome = "forwarded"
                            /\ \/ reqs[i].routeOpts.onResponse # "undefined"
                               \/ reqs[i].routeOpts.onError
                               \/ thisOpts.errorHandler)
  /\ [][\A i \in ReqIds, c \in ErrorCodes, m \in BOOLEAN :
          ForwardError(i, c, m)
            => IF reqs[i].defer
               THEN /\ reqs'[i].rejected
                    /\ ~ reqs'[i].inline
                    /\ reqs'[i].onResponseCalls = 0
               ELSE /\ ~ reqs'[i].rejected
                    /\ reqs'[i].inline
                    /\ reqs'[i].handleProxyErrorCalls = 1
                    /\ reqs'[i].onErrorCalls = 0
                    /\ reqs'[i].errorHandlerCalls = 0]_vars

\* a forward with a defer (the route has onResponse only and no errorHandler is
\* set) failed: the defer was rejected and the catch callback, not the
\* listener, called the default handler
ForwardDeferWitness ==
  \E i \in ReqIds :
    /\ reqs[i].forward = "failed"
    /\ reqs[i].defer /\ reqs[i].rejected /\ ~ reqs[i].inline
    /\ reqs[i].routeOpts.onResponse = "returns" /\ ~ reqs[i].routeOpts.onError
    /\ reqs[i].handleProxyErrorCalls = 1

\* C30: an exception thrown by a route's onRequest or onResponse hook is
\* delivered to the route's onError hook when it is set, otherwise to the
\* global errorHandler when it is set, otherwise to the default error handler.
HookExceptionReachesErrorHandler ==
  \A i \in ReqIds :
    (reqs[i].pc = "done" /\ reqs[i].route.kind = "route")
      => LET ro == optsOf(routing, reqs[i].route)
             threw == \/ reqs[i].onRequestCalls = 1 /\ ro.onRequest = "throws"
                      \/ reqs[i].onResponseCalls = 1 /\ ro.onResponse = "throws"
             calls == <<reqs[i].onErrorCalls, reqs[i].errorHandlerCalls,
                        reqs[i].handleProxyErrorCalls>>
         IN threw => calls = IF ro.onError THEN <<1, 0, 0>>
                             ELSE IF thisOpts.errorHandler THEN <<0, 1, 0>>
                             ELSE <<0, 0, 1>>

---------------------------------------------------------------------------
(* Requests that are resolved while register and unregister run *)

\* C23: a request whose resolution found a route of the table, with register
\* and unregister running before its target is selected, is forwarded to a
\* target that is among the route's urls when the target is selected, or is
\* answered as a routing miss; the selection reads no missing target and
\* leaves rr within [0, |urls|).
ConcurrentRequestSeesWholeRoute ==
  [][\A i \in ReqIds :
       (/\ Resolved(i)
        /\ \E n \in 1..Len(reqs[i].results) :
             reqs[i].results[n].kind \in {"route", "detachedRoute"})
         => /\ reqs'[i].outcome \in {"forwarded", "notFound"}
            /\ reqs'[i].outcome = "forwarded"
                 => reqs'[i].target \in
                      hrefsAt(routing, reqs'[i].route.host, reqs'[i].route.path)
            /\ \A hi \in RoutesOf(routing') :
                 /\ routing'[hi[1]][hi[2]].rr >= 0
                 /\ routing'[hi[1]][hi[2]].rr < Len(routing'[hi[1]][hi[2]].urls)]_vars

---------------------------------------------------------------------------
(* Certificates and their renewal timers *)

\* the options of a proxy with an HTTPS listener and opts.letsencrypt: the
\* constructor passes setupLetsencrypt an identifier log that the module does
\* not declare, so such a proxy exists where a global of that name does, or
\* where the caller sets opts.letsencrypt on the proxy
CertOpts ==
  {[PlainOpts EXCEPT !.https = TRUE, !.letsencrypt = TRUE, !.renewWithin = w,
                     !.minRenewTime = m] : w \in {0, 1000}, m \in {0, 2, -1}}

\* the route options: key and cert given, or ssl.letsencrypt
CertRouteOpts == {[NoHooks EXCEPT !.ssl = x] : x \in {"certs", "letsencrypt"}}

InitCerts ==
  /\ routing = EmptyTable
  /\ \E o \in CertOpts : ServerInit(o) /\ resolvers = initialResolvers(o)
  /\ routeCache = EmptyCache
  /\ reqs = [i \in ReqIds |-> IdleReq]
  /\ picks = [k \in Hosts \X Paths |-> <<>>]
  /\ probe = NoProbe

NextCerts ==
  \/ \E h \in Hosts, p \in {Root, PathA}, o \in CertRouteOpts : Register(h, p, "t1", o)
  \/ \E h \in Hosts, p \in {Root, PathA} : Unregister(h, p, NoTarget)
  \/ \E r \in AcmeCalls, ok \in BOOLEAN, e \in ExpiresIn : GotCertificates(r, ok, e)
  \/ \E id \in 1..MaxTimers : RenewalTimerFires(id)
  \/ \E s \in BOOLEAN : Close(s)

SpecCerts == InitCerts /\ [][NextCerts]_vars

\* whether the renewal timer that the entry of hostname h refers to is pending
timerPending(rt, ts, h) == h \in DOMAIN rt /\ \E t \in ts : t.id = rt[h]

\* C21: the certificate-store entry of a hostname, and its renewal timer, is
\* kept as long as at least one route of the hostname remains in the routing
\* table, and unregister removes the entry and clears the timer when it removes
\* the last route of the hostname.
CertEntryLivesWithRoutes ==
  [][\A h \in Hosts :
       /\ (h \in DOMAIN certs /\ bucketOf(routing', h) # <<>>)
            => /\ h \in DOMAIN certs'
               /\ (timerPending(renewalTimeout, timers, h)
                     /\ ~ RenewalTimerFires(renewalTimeout[h]))
                    => \E t \in timers' : t.domain = h
       /\ \A p \in Paths :
            (/\ Unregister(h, p, NoTarget)
             /\ bucketOf(routing, h) # <<>>
             /\ bucketOf(routing', h) = <<>>)
              => /\ h \notin DOMAIN certs'
                 /\ ~ timerPending(renewalTimeout, timers', h)]_vars

\* C25: after close() has been called no certificate renewal timer remains
\* scheduled, and none fires.
CloseReleasesRenewalTimers ==
  /\ [](~listening => timers = {})
  /\ [][~listening => \A id \in 1..MaxTimers : ~ RenewalTimerFires(id)]_vars

\* C26: when the renewal timer of a domain fires, updateCertificates is called
\* for the domain, email, production flag and renewWithin of the acquisition
\* that scheduled it, with renew = true.
RenewalTimerRenews ==
  [][\A id \in 1..MaxTimers :
       RenewalTimerFires(id)
         => LET t == timerOf(timers, id)
                call == [domain |-> t.domain, email |-> t.email,
                         production |-> t.production, renewWithin |-> t.renewWithin,
                         renew |-> TRUE]
            IN /\ ~ lastCall'.threw
               /\ CopiesIn(call, acmeRequests') = CopiesIn(call, acmeRequests) + 1]_vars

\* C27: the delay of a renewal timer is expiresAt - now - renewWithin when that
\* is positive, and otherwise letsencrypt.minRenewTime, or one hour when
\* minRenewTime is not set (undefined or 0, which || takes alike); with
\* minRenewTime unset or positive the delay is positive.
RenewalDelayIsClamped ==
  \A t \in timers :
    LET d == t.expiresIn - t.renewWithin
        m == thisOpts.minRenewTime
    IN /\ d > 0 => t.delay = d
       /\ (d <= 0 /\ m # 0) => t.delay = m
       /\ (d <= 0 /\ m = 0) => t.delay = ONE_HOUR
       /\ m >= 0 => t.delay > 0

\* a timer whose certificate expires within renewWithin, clamped to one hour,
\* and one that is not clamped
RenewalDelayWitness ==
  /\ thisOpts.minRenewTime = 0
  /\ \E t \in timers : t.expiresIn - t.renewWithin <= 0 /\ t.delay = ONE_HOUR
  /\ \E t \in timers : t.expiresIn - t.renewWithin > 0 /\ t.delay = t.expiresIn - t.renewWithin

\* C28: a renewal timer is pending for a hostname only while the certificate
\* store holds an entry for the hostname, and at most one is pending per
\* hostname.
RenewalTimersMatchCerts ==
  \A h \in Hosts :
    /\ (\E t \in timers : t.domain = h) => h \in DOMAIN certs
    /\ Cardinality({t \in timers : t.domain = h}) <= 1

---------------------------------------------------------------------------
(* The connection registry and close *)

InitConn ==
  /\ routing = EmptyTable
  /\ resolvers = <<"default">>
  /\ routeCache = EmptyCache
  /\ reqs = [i \in ReqIds |-> IdleReq]
  /\ picks = [k \in Hosts \X Paths |-> <<>>]
  /\ probe = NoProbe
  /\ \E o \in {PlainOpts, [PlainOpts EXCEPT !.https = TRUE]} : ServerInit(o)

NextConn ==
  \/ \E l \in {"http", "https"} : Accept(l)
  \/ \E c \in ConnIds : SocketClose(c)
  \/ \E s \in BOOLEAN : Close(s)
  \/ ShutdownTimerFires

\* the timer of close(shutdown) is a setTimeout of the event loop: it fires
SpecConn == InitConn /\ [][NextConn]_vars /\ WF_vars(ShutdownTimerFires)

\* the connections that a pending timer of close(shutdown) has captured
captured == UNION {shutdowns[n] : n \in 1..Len(shutdowns)}

\* C22: close(shutdown=true) replaces the connection registry by an empty one
\* in one step and its timer calls end() exactly once on each connection that
\* was in the registry at the call, and on no other; close() without shutdown
\* ends no connection and leaves the registry unchanged.
ShutdownEndsCapturedOnce ==
  /\ [][\A s \in BOOLEAN :
          Close(s) => /\ ended' = ended
                      /\ IF s /\ _connections # {}
                         THEN /\ _connections' = {}
                              /\ shutdowns' = Append(shutdowns, _connections)
                         ELSE /\ _connections' = _connections
                              /\ shutdowns' = shutdowns]_vars
  /\ [][ended' # ended
          => /\ shutdowns # <<>>
             /\ shutdowns' = Tail(shutdowns)
             /\ \A c \in ConnIds :
                  ended'[c] = ended[c] + (IF c \in Head(shutdowns) THEN 1 ELSE 0)]_vars
  /\ [](\A c \in ConnIds : ended[c] <= 1)
  /\ \A c \in ConnIds : (c \in captured) ~> (ended[c] = 1)

\* two connections were captured by close(shutdown=true), one of them closed
\* by itself before the timer fired, and both have been ended once
ShutdownWitness ==
  /\ ~listening
  /\ shutdowns = <<>>
  /\ _connections = {}
  /\ \E c, d \in ConnIds :
       /\ c # d
       /\ ended[c] = 1 /\ ended[d] = 1
       /\ c \in openSockets /\ d \notin openSockets

\* C24: a connection has an entry in the connection registry iff its socket is
\* open.
RegistryIffSocketOpen == _connections = openSockets

\* C24, amended: an entry of the registry is an open socket; an open socket
\* without an entry is one that close(shutdown=true) took out of the registry;
\* accept adds an entry under an id greater than every id assigned before, and
\* the socket's close event removes exactly that entry.
RegistryIffSocketOpenUntilShutdown ==
  /\ [](_connections \subseteq openSockets)
  /\ [](\A c \in openSockets \ _connections : c \in captured \/ ended[c] >= 1)
  /\ [](\A c \in openSockets \cup _connections : c <= _connId)
  /\ [][\A l \in {"http", "https"} :
          Accept(l) => \E id \in ConnIds :
                         /\ id > _connId
                         /\ \A c \in openSockets \cup _connections \cup captured : id > c
                         /\ _connId' = id
                         /\ _connections' = _connections \cup {id}
                         /\ openSockets' = openSockets \cup {id}]_vars
  /\ [][\A c \in ConnIds :
          SocketClose(c) => /\ _connections' = _connections \ {c}
                            /\ openSockets' = openSockets \ {c}]_vars

\* a socket accepted before close(shutdown=true) is open and out of the
\* registry, another one has closed, and no id is left in the registry
RegistryWitness ==
  /\ _connId = MaxConns
  /\ \E c \in openSockets : c \notin _connections /\ c \in captured
  /\ \E c \in ConnIds : c \notin openSockets /\ c <= _connId

---------------------------------------------------------------------------
(* The Host header's letter case, in the resolution and in the redirect *)

\* requests for the registered host, as registered and with a capital letter
CaseInputs == {<<"a.com", <<"/", "a", "/", "b">>>>, <<"A.com", <<"/", "a", "/", "b">>>>}

\* a proxy with an HTTPS listener on which a.com has been registered with a key
\* and a certificate
InitCase ==
  \E o \in {[PlainOpts EXCEPT !.https = TRUE]}, p \in {Root, PathA}, t \in {"t3/a", "t1"},
     ro \in {[NoHooks EXCEPT !.ssl = "certs"]} :
    /\ thisOpts = o
    /\ certs = registerSsl(o, EmptyCerts, EmptyBag, "a.com", ro.ssl).certs
    /\ acmeRequests = EmptyBag
    /\ LifecycleInit
    /\ respondNotFound = "default"
    /\ otherResponder = "none"
    /\ lastCall = [op |-> "register", threw |-> FALSE, returned |-> "this"]
    /\ routing = register(EmptyTable, "a.com", p, t, ro)
    /\ resolvers = initialResolvers(o)
    /\ routeCache = EmptyCache
    /\ reqs = [i \in ReqIds |-> IdleReq]
    /\ picks = [k \in Hosts \X Paths |-> <<>>]
    /\ probe = NoProbe

NextCase ==
  \/ \E i \in ReqIds, l \in {"http", "https"}, q \in CaseInputs :
       NewRequest(i, l, q[1], q[2], NoCustom)
  \/ \E i \in ReqIds : Resolved(i)
  \/ \E i \in ReqIds : ForwardEnd(i)

SpecCase == InitCase /\ [][NextCase]_vars

\* C36: an HTTP request whose Host header names, in any letter case, a host
\* with a certificate-store entry and that resolves to a route whose target has
\* sslRedirect is answered with 302 and is not forwarded.
RedirectIgnoresHostCase ==
  [][\A i \in ReqIds :
       (/\ Resolved(i)
        /\ reqs[i].listener = "http"
        /\ toLowerCase(reqs[i].host) \in DOMAIN certs
        /\ reqs'[i].route.kind = "route"
        /\ reqs'[i].sslRedirect)
         => (reqs'[i].outcome = "redirected" /\ reqs'[i].status = 302 /\ reqs'[i].web = 0)]_vars

---------------------------------------------------------------------------
(* Graceful shutdown: the listeners' close and the promise of close *)

NextShutdown ==
  \/ \E l \in {"http", "https"} : Accept(l)
  \/ \E c \in ConnIds : SocketClose(c)
  \/ \E s \in BOOLEAN : Close(s)
  \/ ShutdownTimerFires
  \/ ListenersClosed

\* the timer of close(shutdown) fires, a socket on which end() was called
\* closes, and a drained listener emits 'close'
SpecShutdown ==
  /\ InitConn
  /\ [][NextShutdown]_vars
  /\ WF_vars(ShutdownTimerFires)
  /\ \A c \in ConnIds : WF_vars(EndedSocketCloses(c))
  /\ WF_vars(ListenersClosed)

\* C34: after close(shutdown=true) every connection recorded at the shutdown
\* is eventually ended, every listener eventually reports closed and the
\* promise that close returned eventually resolves; once close has been called
\* no listener accepts a connection.
ShutdownCompletes ==
  /\ \A c \in ConnIds : (c \in captured) ~> (ended[c] >= 1)
  /\ [][Close(TRUE) => /\ closePromise' = "pending"
                        /\ \A c \in openSockets' : c \in captured' \/ ended'[c] >= 1]_vars
  /\ (closePromise = "pending" /\ (openSockets = {} \/ \A c \in openSockets : c \in captured \/ ended[c] >= 1))
       ~> (listenersClosed /\ closePromise = "resolved")
  /\ [][~listening => (~listening' /\ openSockets' \subseteq openSockets /\ _connId' = _connId)]_vars

\* close(shutdown=true) was called with two connections open; both were ended,
\* both sockets closed, the listeners reported closed and the promise resolved
ShutdownCompleteWitness ==
  /\ closePromise = "resolved"
  /\ listenersClosed
  /\ ~listening
  /\ openSockets = {}
  /\ \E c, d \in ConnIds : c # d /\ ended[c] = 1 /\ ended[d] = 1

---------------------------------------------------------------------------
(* Two proxies in one process and the not-found responder *)

\* this proxy serves requests and is given a not-found callback; the other
\* proxy of the process is never given one
NextInstances ==
  \/ \E h \in Hosts, p \in Paths, t \in TargetArgs, o \in {NoHooks} : Register(h, p, t, o)
  \/ \E i \in SerialReqIds, q \in ReqInputs : NewRequest(i, "http", q[1], q[2], NoCustom)
  \/ \E i \in SerialReqIds : Resolved(i)
  \/ \E i \in SerialReqIds : ForwardEnd(i)
  \/ NotFound
  \/ OtherMiss

SpecInstances == Init /\ [][NextInstances]_vars

\* C35: notFound(callback) on this proxy changes the responder of this proxy
\* only: a routing miss of the other proxy, which was given no callback, is
\* answered by the default responder.
NotFoundIsPerInstance ==
  [][OtherMiss => otherResponder' = "default"]_vars

---------------------------------------------------------------------------
(* Forwarder events after the forward defer has settled *)

ForwardEvents == {"end", "error"}

NextEvents ==
  \/ \E i \in SerialReqIds, l \in {"http", "https"}, q \in HookInputs :
       NewRequest(i, l, q[1], q[2], NoCustom)
  \/ \E i \in SerialReqIds : Resolved(i)
  \/ \E i \in SerialReqIds : ForwardEnd(i)
  \/ \E i \in SerialReqIds, code \in ErrorCodes, m \in BOOLEAN : ForwardError(i, code, m)
  \/ \E i \in SerialReqIds, e \in ForwardEvents, code \in ErrorCodes : ForwardAgain(i, e, code)

SpecEvents == InitHooks /\ [][NextEvents]_vars

\* the calls of onError, of the global errorHandler and of the default handler
errorHandling(i) ==
  reqs[i].onErrorCalls + reqs[i].errorHandlerCalls + reqs[i].handleProxyErrorCalls

\* the request has a forward defer, its forward has ended or failed, and the
\* route's onResponse hook, if any, returns
DeferredForwardOver(i) ==
  /\ reqs[i].defer
  /\ reqs[i].forward \in {"ended", "failed"}
  /\ reqs[i].routeOpts.onResponse \notin {"rejects", "throws"}

\* an event of the forwarder after the first leaves a request with a forward
\* defer as it is
LateEventsAreIgnored ==
  \A i \in ReqIds, e \in ForwardEvents, code \in ErrorCodes :
    (ForwardAgain(i, e, code) /\ reqs[i].defer)
      => reqs'[i] = [reqs[i] EXCEPT !.events = @ + 1]

\* C33 as claimed: events after the first settle nothing and call no hook or
\* handler, so that exactly one of onResponse and the error handling runs for a
\* forwarded request with a forward defer whose hooks do not throw.
ForwardDeferRunsExactlyOne ==
  /\ [][LateEventsAreIgnored]_vars
  /\ [](\A i \in ReqIds :
          DeferredForwardOver(i) => reqs[i].onResponseCalls + errorHandling(i) = 1)

\* C33, amended: at most one of them runs. After 'end' the onResponse hook runs
\* once when the route has one (and nothing runs when the defer exists for
\* onError or errorHandler only); after 'error' or 'econnreset' exactly one of
\* onError, errorHandler and the default handler runs once.
ForwardDeferSettlesOnce ==
  /\ [][LateEventsAreIgnored]_vars
  /\ [](\A i \in ReqIds :
          DeferredForwardOver(i) =>
            /\ reqs[i].onResponseCalls + errorHandling(i) <= 1
            /\ reqs[i].forward = "ended" =>
                 /\ errorHandling(i) = 0
                 /\ reqs[i].onResponseCalls =
                      (IF reqs[i].routeOpts.onResponse # "undefined" THEN 1 ELSE 0)
            /\ reqs[i].forward = "failed" =>
                 /\ errorHandling(i) = 1
                 /\ reqs[i].onResponseCalls = 0)

\* a request with a forward defer whose forward ended got a second event of
\* the forwarder, and its onResponse hook has run once
LateEventWitness ==
  \E i \in ReqIds :
    /\ reqs[i].defer
    /\ reqs[i].settled
    /\ reqs[i].forward = "ended"
    /\ reqs[i].events >= 2
    /\ reqs[i].onResponseCalls = 1
    /\ errorHandling(i) = 0

---------------------------------------------------------------------------
(* WebSocket upgrades *)

NextUpgrade ==
  \/ NotFound
  \/ \E i \in SerialReqIds, l \in {"http", "upgrade"}, q \in HookInputs :
       NewRequest(i, l, q[1], q[2], NoCustom)
  \/ \E i \in SerialReqIds : Resolved(i)
  \/ \E i \in SerialReqIds : ForwardEnd(i)

SpecUpgrade == InitHooks /\ [][NextUpgrade]_vars

\* C32: an upgrade is resolved as an HTTP request is; when a target comes out
\* of it the socket is given to the WebSocket forwarder with that target, and
\* otherwise the not-found responder answers 404 on the socket and nothing is
\* forwarded.
UpgradeForwardsOrAnswers404 ==
  [][\A i \in ReqIds :
       (Resolved(i) /\ reqs[i].listener = "upgrade")
         => LET g == _getRouteTarget(routing,
                                     resolve(reqs[i].results, reqs[i].url, routeCache).cache,
                                     resolve(reqs[i].results, reqs[i].url, routeCache).route,
                                     reqs[i].url)
            IN IF ~g.threw /\ g.target \notin {"undefined", "false"}
               THEN /\ reqs'[i].ws = 1
                    /\ reqs'[i].target = g.target
                    /\ reqs'[i].responder = ""
               ELSE /\ reqs'[i].ws = 0
                    /\ reqs'[i].web = 0
                    /\ reqs'[i].responder = respondNotFound
                    /\ reqs'[i].status = 404
                    /\ reqs'[i].ended]_vars

---------------------------------------------------------------------------
(* The proxy handle of a route and changeOrigin *)

\* targets on another host over HTTP and over HTTPS, and on the source's host
\* over HTTPS
OriginTargets == {"t1", "https://t2", "https://a.com"}

\* route options with changeOrigin left out, true and false
OriginOpts == {NoHooks, [NoHooks EXCEPT !.changeOrigin = "true"],
               [NoHooks EXCEPT !.changeOrigin = "false"]}

NextOrigin ==
  \/ \E h \in Hosts, p \in {Root, PathA}, t \in OriginTargets, o \in OriginOpts :
       Register(h, p, t, o)
  \/ \E i \in SerialReqIds, q \in ReqInputs : NewRequest(i, "http", q[1], q[2], NoCustom)
  \/ \E i \in SerialReqIds : Resolved(i)
  \/ \E i \in SerialReqIds : ForwardEnd(i)

SpecOrigin == Init /\ [][NextOrigin]_vars

\* C31: a request forwarded to an HTTPS target whose hostname differs from the
\* hostname of the route's source, on a route whose options leave changeOrigin
\* out, goes through a proxy handle created with changeOrigin true, whichever
\* register call added the target.
HttpsTargetGetsChangeOrigin ==
  [][\A i \in ReqIds :
       (/\ Resolved(i)
        /\ reqs'[i].outcome = "forwarded"
        /\ protocolOf(reqs'[i].target) = "https:"
        /\ hostnameOf(reqs'[i].target) # reqs'[i].route.host
        /\ reqs'[i].routeOpts.changeOrigin = "undefined")
         => reqs'[i].via = "changeOrigin"]_vars

====
